---------------------------- MODULE Spec2Model ----------------------------
(***************************************************************************)
(* Order-parameterization and symbol-translation core of atas_mt5:         *)
(*   - SymbolMapper        (src/py_order_api/symbol_mapper.py)             *)
(*   - MT5Trader           (src/py_order_api/mt5_trader.py)                *)
(*   - BybitTrader         (src/py_order_api/bybit/bybit_trader.py)        *)
(*   - request handlers    (src/py_order_api/websocket_server.py)          *)
(*                                                                         *)
(* Strings are finite sequences of small naturals, so that Python's        *)
(* `key in external_symbol` is contiguous-subsequence containment.  A      *)
(* Python dict is a sequence of entries with pairwise distinct keys, in    *)
(* insertion order.  Prices, quantities and money are integers counted in  *)
(* a fixed sub-unit.                                                       *)
(***************************************************************************)
EXTENDS Integers, Sequences, FiniteSets, TLC

VARIABLES
    symbol_mapping,     \* SymbolMapper.symbol_mapping: dict, insertion ordered
    reverse_mapping,    \* SymbolMapper.reverse_mapping: venue symbol -> external symbol
    config_file,        \* "symbol_mapping" of the configuration file on disk
    ret,                \* the last SymbolMapper call: its name, argument and return value
    pre,                \* history: the tables before an add that a remove follows
    venue,              \* which adapter serves the call: "bybit" or "mt5"
    initialized,        \* BybitTrader.initialized / MT5Trader.is_connected()
    req,                \* the arguments of the adapter call in progress
    facts,              \* what the venue answers about the instrument during the call
    pc,                 \* where the adapter call stands
    loc,                \* the local variables of the adapter call
    orders,             \* the orders submitted to the venue during the call, in order
    outcomes,           \* the venue's answer to each of them
    result,             \* what the adapter call returned
    positions,          \* the positions the venue holds, in the order it lists them
    task,               \* per connection: the handle_message coroutine and its locals
    sent,               \* per connection: the envelopes the last step sent on it
    running,            \* the connection whose coroutine holds the event loop, 0 if none
    jobs                \* per connection: its calls on the executor's worker threads

mapperVars == <<symbol_mapping, reverse_mapping, config_file, ret, pre>>

serverVars == <<task, sent, running, jobs>>

callVars == <<venue, initialized, req, facts, pc, loc, orders, outcomes, result,
              positions, serverVars>>

vars == <<symbol_mapping, reverse_mapping, config_file, ret, pre,
          venue, initialized, req, facts, pc, loc, orders, outcomes, result,
          positions, task, sent, running, jobs>>

---------------------------------------------------------------------------
(* Input sets                                                              *)

\* The empty string.
Empty == << >>

\* External identifiers the callers use: "F", "GF" and "GFC".  "F" is
\* contained in "GF" (as its end) and in "GFC" (in the middle), "GF" in
\* "GFC" (as its start): the shape of "COMEX Gold" / "COMEX Gold Futures" /
\* "COMEX Gold Futures Contract".
ExtIds == { <<2>>, <<1, 2>>, <<1, 2, 3>> }

\* Venue-native identifiers.
Venues == { <<8>>, <<9>> }

\* Volume ratios (1 stands for 1.0).
Ratios == { 1, 2 }

\* Raw volumes handed to map_volume.
Volumes == { 1, 3 }


---------------------------------------------------------------------------
(* Python dict and str primitives                                          *)

\* k in s, for two str
IsSubstring(k, s) ==
    \E i \in 0..(Len(s) - Len(k)) : SubSeq(s, i + 1, i + Len(k)) = k

\* the keys of a dict, as a set
Keys(d) == { d[i].key : i \in DOMAIN d }

\* position of key k in dict d (k is a key of d)
IndexOf(d, k) == CHOOSE i \in DOMAIN d : d[i].key = k

\* d[k]
Get(d, k) == d[IndexOf(d, k)]

\* d[k] = {"symbol": v, "volume_ratio": r}: an existing key keeps its place
Put(d, k, v, r) ==
    LET e == [key |-> k, symbol |-> v, volume_ratio |-> r]
    IN  IF k \in Keys(d)
        THEN [d EXCEPT ![IndexOf(d, k)] = e]
        ELSE Append(d, e)

\* del d[k]
Del(d, k) ==
    LET i == IndexOf(d, k)
    IN  SubSeq(d, 1, i - 1) \o SubSeq(d, i + 1, Len(d))

\* del f[k] for the reverse index
Without(f, k) == [x \in (DOMAIN f) \ {k} |-> f[x]]

\* f[k] = v for the reverse index
With(f, k, v) == [x \in (DOMAIN f) \cup {k} |-> IF x = k THEN v ELSE f[x]]

EmptyMap == [x \in {} |-> Empty]

\* history: no add-then-remove is being followed
NoRoundTrip ==
    [phase |-> "idle", sm |-> << >>, rm |-> EmptyMap,
     external_symbol |-> Empty, mt5_symbol |-> Empty]


---------------------------------------------------------------------------
(* SymbolMapper                                                            *)

\* Largest number of entries a table holds in the model.
MaxKeys == 2

\* A value of the configuration file's "symbol_mapping": the legacy form is
\* a bare venue string, the new form a dict with symbol and volume_ratio.
ConfigEntries ==
    [key : ExtIds, symbol : Venues, volume_ratio : {1}, legacy : {TRUE}]
    \cup [key : ExtIds, symbol : Venues, volume_ratio : Ratios, legacy : {FALSE}]

\* dicts (no key twice) of at most n entries drawn from S
DictsOf(S, n) ==
    { d \in UNION { [1..k -> S] : k \in 0..n } :
        \A i, j \in DOMAIN d : d[i].key = d[j].key => i = j }

\* json.dump of the in-memory table: always the new form
Dump(sm) ==
    [i \in DOMAIN sm |->
        [key |-> sm[i].key, symbol |-> sm[i].symbol,
         volume_ratio |-> sm[i].volume_ratio, legacy |-> FALSE]]

RECURSIVE MergeConfig(_, _)
\* load_mapping, first loop: every entry of the file is assigned into the table
MergeConfig(sm, cfg) ==
    IF cfg = << >> THEN sm
    ELSE LET e == Head(cfg)
         IN  MergeConfig(
                 Put(sm, e.key, e.symbol,
                     IF e.legacy THEN 1 ELSE e.volume_ratio),
                 Tail(cfg))

RECURSIVE BuildReverse(_, _)
\* load_mapping, second loop: the first external symbol of a venue symbol wins
BuildReverse(sm, rm) ==
    IF sm = << >> THEN rm
    ELSE LET e == Head(sm)
         IN  BuildReverse(Tail(sm),
                 IF e.symbol \in DOMAIN rm THEN rm ELSE With(rm, e.symbol, e.key))

\* _find_best_match: the first key, in insertion order, contained in the input
FirstMatchIndex(sm, external_symbol) ==
    LET hits == { i \in DOMAIN sm : IsSubstring(sm[i].key, external_symbol) }
    IN  IF hits = {} THEN 0
        ELSE CHOOSE i \in hits : \A j \in hits : i <= j

find_best_match(sm, external_symbol) ==
    LET i == FirstMatchIndex(sm, external_symbol)
    IN  IF i = 0 THEN Empty ELSE sm[i].key

\* a map_to_mt5 without the exact-match lookup
map_to_mt5_by_containment(sm, external_symbol) ==
    LET best_match == find_best_match(sm, external_symbol)
    IN  IF best_match # Empty
        THEN Get(sm, best_match).symbol
        ELSE external_symbol

\* map_to_mt5: exact match, else containment match, else the input itself
map_to_mt5(sm, external_symbol) ==
    IF external_symbol \in Keys(sm)
    THEN Get(sm, external_symbol).symbol
    ELSE LET best_match == find_best_match(sm, external_symbol)
         IN  IF best_match # Empty
             THEN Get(sm, best_match).symbol
             ELSE external_symbol

\* a get_volume_ratio without the exact-match lookup
get_volume_ratio_by_containment(sm, external_symbol) ==
    LET best_match == find_best_match(sm, external_symbol)
    IN  IF best_match # Empty
        THEN Get(sm, best_match).volume_ratio
        ELSE 1

\* get_volume_ratio: exact match, else containment match, else 1.0
get_volume_ratio(sm, external_symbol) ==
    IF external_symbol \in Keys(sm)
    THEN Get(sm, external_symbol).volume_ratio
    ELSE LET best_match == find_best_match(sm, external_symbol)
         IN  IF best_match # Empty
             THEN Get(sm, best_match).volume_ratio
             ELSE 1

\* a map_volume that hands the volume back unscaled
map_volume_unscaled(sm, external_symbol, volume) == volume

\* map_volume
map_volume(sm, external_symbol, volume) ==
    volume * get_volume_ratio(sm, external_symbol)

\* map_from_mt5
map_from_mt5(rm, mt5_symbol) ==
    IF mt5_symbol \in DOMAIN rm THEN rm[mt5_symbol] ELSE mt5_symbol

\* an add_mapping that appends its entry whether or not the key is there
add_mapping_appending(m, external_symbol, mt5_symbol, volume_ratio) ==
    IF external_symbol = Empty \/ mt5_symbol = Empty
    THEN m
    ELSE [sm |-> Append(m.sm, [key |-> external_symbol, symbol |-> mt5_symbol,
                               volume_ratio |-> volume_ratio]),
          rm |-> With(m.rm, mt5_symbol, external_symbol)]

\* add_mapping, the in-memory part (the guard on empty arguments included)
add_mapping(m, external_symbol, mt5_symbol, volume_ratio) ==
    IF external_symbol = Empty \/ mt5_symbol = Empty
    THEN m
    ELSE [sm |-> Put(m.sm, external_symbol, mt5_symbol, volume_ratio),
          rm |-> With(m.rm, mt5_symbol, external_symbol)]

\* a remove_mapping that forgets the reverse index
remove_mapping_forward_only(m, external_symbol) ==
    IF external_symbol \in Keys(m.sm)
    THEN [sm |-> Del(m.sm, external_symbol), rm |-> m.rm]
    ELSE m

\* remove_mapping, the in-memory part
remove_mapping(m, external_symbol) ==
    IF external_symbol \in Keys(m.sm)
    THEN LET mt5_symbol == Get(m.sm, external_symbol).symbol
         IN  [sm |-> Del(m.sm, external_symbol),
              rm |-> IF mt5_symbol \in DOMAIN m.rm
                     THEN Without(m.rm, mt5_symbol)
                     ELSE m.rm]
    ELSE m

\* the translator's in-memory state
Mapper == [sm |-> symbol_mapping, rm |-> reverse_mapping]

\* no configuration file on disk; "other" stands for the keys of the file
\* beside "symbol_mapping" ("none": there are none)
NoFile ==
    [exists |-> FALSE, readable |-> FALSE, symbol_mapping |-> << >>,
     other |-> "none"]

\* what is left of a file that was opened for writing and not written out
TornFile ==
    [exists |-> TRUE, readable |-> FALSE, symbol_mapping |-> << >>,
     other |-> "none"]

\* save_mapping reads the existing file before it writes: it cannot read a
\* file that does not parse
StoreUnreadable == config_file.exists /\ ~config_file.readable

\* what save_mapping returns when the file system lets it through (ok) or not
saved(ok) == ok /\ ~StoreUnreadable

\* what a call tells about its save_mapping
SaveOutcome(ok) == IF saved(ok) THEN "ok" ELSE "failed"

\* a save_mapping that writes a file of the table alone
save_mapping_table_only(ok) ==
    IF config_file.exists /\ ~config_file.readable THEN UNCHANGED config_file
    ELSE IF ok
    THEN config_file' = [exists |-> TRUE, readable |-> TRUE,
                         symbol_mapping |-> Dump(symbol_mapping'),
                         other |-> "none"]
    ELSE config_file' \in { config_file, TornFile }

\* save_mapping: on success the file's symbol_mapping is the in-memory table;
\* a failure before the file is opened for writing leaves the file, a
\* failure after that leaves it truncated
save_mapping(ok) ==
    IF StoreUnreadable THEN UNCHANGED config_file
    ELSE IF ok
    THEN config_file' = [exists |-> TRUE, readable |-> TRUE,
                         symbol_mapping |-> Dump(symbol_mapping'),
                         other |-> IF config_file.exists
                                   THEN config_file.other ELSE "none"]
    ELSE config_file' \in { config_file, TornFile }

\* SymbolMapper.__init__: empty tables, then load_mapping
InitMapper ==
    /\ config_file \in
         { NoFile }
         \cup { [exists |-> TRUE, readable |-> TRUE, symbol_mapping |-> c,
                  other |-> "settings"] :
                c \in DictsOf(ConfigEntries, MaxKeys) }
    /\ symbol_mapping = MergeConfig(<< >>, config_file.symbol_mapping)
    /\ reverse_mapping = BuildReverse(symbol_mapping, EmptyMap)
    /\ ret = [op |-> "init", arg |-> Empty, val |-> TRUE, saved |-> "none"]
    /\ pre = NoRoundTrip

\* load_mapping
LoadMapping ==
    /\ Len(MergeConfig(symbol_mapping, config_file.symbol_mapping)) <= MaxKeys
    /\ symbol_mapping' =
         IF config_file.exists /\ config_file.readable
         THEN MergeConfig(symbol_mapping, config_file.symbol_mapping)
         ELSE symbol_mapping
    /\ reverse_mapping' =
         IF config_file.exists /\ config_file.readable
         THEN BuildReverse(symbol_mapping', EmptyMap)
         ELSE reverse_mapping
    /\ ret' = [op |-> "load_mapping", arg |-> Empty, val |-> TRUE, saved |-> "none"]
    /\ UNCHANGED config_file
    /\ UNCHANGED pre
    /\ UNCHANGED callVars

\* add_mapping(external_symbol, mt5_symbol, volume_ratio, save=True): what it
\* does to the translator
DoAddMapping(external_symbol, mt5_symbol, volume_ratio, ok) ==
    LET m == add_mapping(Mapper, external_symbol, mt5_symbol, volume_ratio)
        rejected == external_symbol = Empty \/ mt5_symbol = Empty
    IN  /\ Len(m.sm) <= MaxKeys
        /\ symbol_mapping' = m.sm
        /\ reverse_mapping' = m.rm
        /\ IF rejected THEN UNCHANGED config_file ELSE save_mapping(ok)
        /\ ret' = [op |-> "add_mapping", arg |-> external_symbol,
                   mt5_symbol |-> mt5_symbol, volume_ratio |-> volume_ratio,
                   val |-> IF rejected THEN FALSE ELSE saved(ok),
                   saved |-> IF rejected THEN "none" ELSE SaveOutcome(ok)]

\* remove_mapping(external_symbol, save=True): what it does to the translator
DoRemoveMapping(external_symbol, ok) ==
    LET m == remove_mapping(Mapper, external_symbol)
        present == external_symbol \in Keys(symbol_mapping)
    IN  /\ symbol_mapping' = m.sm
        /\ reverse_mapping' = m.rm
        /\ IF present THEN save_mapping(ok) ELSE UNCHANGED config_file
        /\ ret' = [op |-> "remove_mapping", arg |-> external_symbol,
                   val |-> IF present THEN saved(ok) ELSE FALSE,
                   saved |-> IF present THEN SaveOutcome(ok) ELSE "none"]

\* a call of add_mapping
AddMapping(external_symbol, mt5_symbol, volume_ratio, ok) ==
    /\ DoAddMapping(external_symbol, mt5_symbol, volume_ratio, ok)
    /\ UNCHANGED pre
    /\ UNCHANGED callVars

\* a call of remove_mapping
RemoveMapping(external_symbol, ok) ==
    /\ DoRemoveMapping(external_symbol, ok)
    /\ UNCHANGED pre
    /\ UNCHANGED callVars

\* clear_mappings(save=True)
ClearMappings(ok) ==
    /\ symbol_mapping' = << >>
    /\ reverse_mapping' = EmptyMap
    /\ save_mapping(ok)
    /\ ret' = [op |-> "clear_mappings", arg |-> Empty, val |-> saved(ok),
               saved |-> SaveOutcome(ok)]
    /\ UNCHANGED pre
    /\ UNCHANGED callVars

\* a map_to_mt5 that keeps what it resolved as an entry of the forward table
MapToMt5Caching(external_symbol) ==
    /\ ret' = [op |-> "map_to_mt5", arg |-> external_symbol,
               val |-> map_to_mt5(symbol_mapping, external_symbol),
               saved |-> "none"]
    /\ symbol_mapping' =
         IF external_symbol \in Keys(symbol_mapping) THEN symbol_mapping
         ELSE Append(symbol_mapping,
                     [key |-> external_symbol,
                      symbol |-> map_to_mt5(symbol_mapping, external_symbol),
                      volume_ratio |-> get_volume_ratio(symbol_mapping,
                                                        external_symbol)])
    /\ UNCHANGED <<reverse_mapping, config_file>>
    /\ UNCHANGED pre
    /\ UNCHANGED callVars

\* map_to_mt5(external_symbol)
MapToMt5(external_symbol) ==
    /\ ret' = [op |-> "map_to_mt5", arg |-> external_symbol,
               val |-> map_to_mt5(symbol_mapping, external_symbol),
               saved |-> "none"]
    /\ UNCHANGED <<symbol_mapping, reverse_mapping, config_file>>
    /\ UNCHANGED pre
    /\ UNCHANGED callVars

\* get_volume_ratio(external_symbol)
GetVolumeRatio(external_symbol) ==
    /\ ret' = [op |-> "get_volume_ratio", arg |-> external_symbol,
               val |-> get_volume_ratio(symbol_mapping, external_symbol),
               saved |-> "none"]
    /\ UNCHANGED <<symbol_mapping, reverse_mapping, config_file>>
    /\ UNCHANGED pre
    /\ UNCHANGED callVars

\* map_volume(external_symbol, volume)
MapVolume(external_symbol, volume) ==
    /\ ret' = [op |-> "map_volume", arg |-> external_symbol,
               val |-> [volume |-> volume,
                        mapped |-> map_volume(symbol_mapping, external_symbol, volume)],
               saved |-> "none"]
    /\ UNCHANGED <<symbol_mapping, reverse_mapping, config_file>>
    /\ UNCHANGED pre
    /\ UNCHANGED callVars

\* map_from_mt5(mt5_symbol)
MapFromMt5(mt5_symbol) ==
    /\ ret' = [op |-> "map_from_mt5", arg |-> mt5_symbol,
               val |-> map_from_mt5(reverse_mapping, mt5_symbol),
               saved |-> "none"]
    /\ UNCHANGED <<symbol_mapping, reverse_mapping, config_file>>
    /\ UNCHANGED pre
    /\ UNCHANGED callVars

\* get_all_mappings(): the forward table
GetAllMappings ==
    /\ ret' = [op |-> "get_all_mappings", arg |-> Empty,
               val |-> symbol_mapping, saved |-> "none"]
    /\ UNCHANGED <<symbol_mapping, reverse_mapping, config_file>>
    /\ UNCHANGED pre
    /\ UNCHANGED callVars

\* no adapter call in progress
\* The connections whose requests interleave.
Conns == {1, 2}

\* a message without an "id" key carries this in place of one
NoId == 0

\* no message in hand
NoMessage == [form |-> "none", action |-> "none", id |-> NoId, symbol |-> Empty, n |-> 0]

\* the locals of a handler before it assigned any
NoLocals == [symbol |-> Empty, volume |-> 0, volume_ratio |-> 0, seen |-> << >>]

\* websocket_handler waiting in `async for message in websocket`
IdleTask == [pc |-> "idle", msg |-> NoMessage, loc |-> NoLocals]

\* no call was handed to a worker thread of this connection
NoJobs == [awaited |-> "none", abandoned |-> "none"]

\* a step that sends no envelope
NothingSent == [c \in Conns |-> << >>]

\* the server before any connection sent a message
IdleServer ==
    /\ task = [c \in Conns |-> IdleTask]
    /\ sent = NothingSent
    /\ running = 0
    /\ jobs = [c \in Conns |-> NoJobs]

IdleCall ==
    /\ venue = "none"
    /\ initialized = FALSE
    /\ req = [op |-> "none"]
    /\ facts = [symbol_info |-> "none"]
    /\ pc = "idle"
    /\ loc = [side |-> "none"]
    /\ orders = << >>
    /\ outcomes = << >>
    /\ result = [kind |-> "pending"]
    /\ positions = << >>
    /\ IdleServer

InitMapperOnly == InitMapper /\ IdleCall

\* the arguments add_mapping is called with: every identifier with every
\* venue symbol and ratio, and calls with an empty identifier or venue symbol
AddArguments ==
    (ExtIds \X Venues \X Ratios)
    \cup { <<Empty, <<8>>, 1>>, <<<<2>>, Empty, 1>>, <<Empty, Empty, 1>> }

NextMapper ==
    \/ LoadMapping
    \/ \E a \in AddArguments : AddMapping(a[1], a[2], a[3], TRUE)
    \/ \E e \in ExtIds : RemoveMapping(e, TRUE)
    \/ ClearMappings(TRUE)
    \/ \E s \in ExtIds : MapToMt5(s)
    \/ \E s \in ExtIds : GetVolumeRatio(s)
    \/ \E s \in ExtIds, v \in Volumes : MapVolume(s, v)
    \/ \E v \in Venues : MapFromMt5(v)

SpecMapper == InitMapperOnly /\ [][NextMapper]_vars

---------------------------------------------------------------------------
(* add_mapping followed by remove_mapping of the same external symbol      *)

\* a call of add_mapping that a remove_mapping of the same symbol follows;
\* the history keeps the tables the call found
RoundTripAdd(external_symbol, mt5_symbol, volume_ratio) ==
    /\ pre.phase = "idle"
    /\ DoAddMapping(external_symbol, mt5_symbol, volume_ratio, TRUE)
    /\ pre' = [phase |-> "added", sm |-> symbol_mapping, rm |-> reverse_mapping,
               external_symbol |-> external_symbol, mt5_symbol |-> mt5_symbol]
    /\ UNCHANGED callVars

\* the call of remove_mapping that follows it
RoundTripRemove ==
    /\ pre.phase = "added"
    /\ DoRemoveMapping(pre.external_symbol, TRUE)
    /\ pre' = [pre EXCEPT !.phase = "removed"]
    /\ UNCHANGED callVars

\* the history is dropped
RoundTripEnd ==
    /\ pre.phase = "removed"
    /\ pre' = NoRoundTrip
    /\ UNCHANGED <<symbol_mapping, reverse_mapping, config_file, ret>>
    /\ UNCHANGED callVars

NextAddRemove ==
    \/ pre.phase = "idle" /\ LoadMapping
    \/ pre.phase = "idle" /\ \E e \in ExtIds, v \in Venues, r \in Ratios :
                                AddMapping(e, v, r, TRUE)
    \/ pre.phase = "idle" /\ \E e \in ExtIds : RemoveMapping(e, TRUE)
    \/ pre.phase = "idle" /\ ClearMappings(TRUE)
    \/ \E e \in ExtIds, v \in Venues, r \in Ratios : RoundTripAdd(e, v, r)
    \/ RoundTripRemove
    \/ RoundTripEnd

SpecAddRemove == InitMapperOnly /\ [][NextAddRemove]_vars

---------------------------------------------------------------------------
(* The translator with a configuration file that may fail to be written    *)

StoreIds == { <<2>>, <<1, 2>> }

NextStore ==
    \/ LoadMapping
    \/ \E e \in StoreIds, r \in Ratios, ok \in BOOLEAN : AddMapping(e, <<8>>, r, ok)
    \/ \E e \in StoreIds, ok \in BOOLEAN : RemoveMapping(e, ok)
    \/ \E ok \in BOOLEAN : ClearMappings(ok)
    \/ \E s \in StoreIds : MapToMt5(s)

\* the translator constructed where no configuration file exists yet, or
\* one without mappings
InitStore ==
    /\ symbol_mapping = << >>
    /\ reverse_mapping = EmptyMap
    /\ config_file \in
         { NoFile,
           [exists |-> TRUE, readable |-> TRUE, symbol_mapping |-> << >>,
            other |-> "settings"] }
    /\ ret = [op |-> "init", arg |-> Empty, val |-> TRUE, saved |-> "none"]
    /\ pre = NoRoundTrip
    /\ IdleCall

SpecStore == InitStore /\ [][NextStore]_vars

---------------------------------------------------------------------------
(* Arithmetic of the adapters                                              *)

\* round(n / d) for d > 0: to the nearest integer, a tie to the even one
RoundHalfEven(n, d) ==
    LET q == n \div d
        r == n % d
    IN  IF 2 * r < d THEN q
        ELSE IF 2 * r > d THEN q + 1
        ELSE IF q % 2 = 0 THEN q ELSE q + 1

\* a price that need not be a whole number of sub-units: num / den, den > 0
Frac(n, d) == [num |-> n, den |-> d]

\* 0 / 0.0: the leg is not set
NoPrice == Frac(0, 1)

\* x > 0 for a price
Positive(x) == x.num > 0

\* "retcode": 0 of BybitTrader.open_position's success dict
RETCODE_SUCCESS == 0

\* "retcode": 10001 of BybitTrader.open_position's error dicts
RETCODE_ERROR == 10001

\* the percentage of the automatic stop-loss
SL_PERCENTAGE == 10

---------------------------------------------------------------------------
(* open_position: inputs                                                   *)

Symbols == { "BTCUSDT", "ETHUSDT" }

\* requested volumes: long, short, none
OrderVolumes == { -3, 0, 1, 3 }

\* explicit entry price (0: market), stop-loss and take-profit (0: not set),
\* target profit (0: not set)
OrderPrices == { 0, 104 }
OrderSls == { 0, 90 }
OrderTps == { 0, 120 }
ProfitAmounts == { 0, 6 }
OrderTypes == { "BUY", "SELL", "HOLD" }

\* minimum quantity and quantity step of the instrument
QtyFacts ==
    { [min |-> 1, step |-> 1], [min |-> 2, step |-> 2],
      [min |-> 5, step |-> 2], [min |-> 1, step |-> 4] }

BybitRequests ==
    [op : {"open_position"}, symbol : {"BTCUSDT"}, order_type : {"BUY", "SELL"},
     volume : OrderVolumes,
     price : OrderPrices, sl : OrderSls, tp : OrderTps,
     profit_amount : ProfitAmounts]

\* Bybit: minOrderQty, qtyStep, tickSize of get_instruments_info and
\* lastPrice of get_tickers
BybitFacts ==
    { [min_qty |-> q.min, qty_step |-> q.step, tick_size |-> 10, last |-> 100,
       ask |-> 0, bid |-> 0, point |-> 1, stops_level |-> 0, tick_value |-> 0] :
      q \in QtyFacts }

MT5Requests ==
    [op : {"open_position"}, symbol : {"BTCUSDT"}, order_type : OrderTypes,
     volume : OrderVolumes,
     price : OrderPrices, sl : OrderSls, tp : OrderTps,
     profit_amount : ProfitAmounts]

\* MT5: volume_min, volume_step, trade_tick_size, point (10 ** -digits),
\* trade_stops_level, trade_tick_value of symbol_info and ask, bid of
\* symbol_info_tick; quotes are whole multiples of point
MT5Facts ==
    { [min_qty |-> q.min, qty_step |-> q.step, tick_size |-> 10, last |-> 0,
       ask |-> 110, bid |-> 100, point |-> 10, stops_level |-> sl,
       tick_value |-> tv] :
      q \in { [min |-> 1, step |-> 1], [min |-> 5, step |-> 2] },
      sl \in { 0, 3 }, tv \in { 0, 1 } }

\* how a venue query ends: an answer, an error answer (None, retCode # 0,
\* an empty list), an exception
QueryAnswers == { "ok", "error", "raise" }

\* how an order submission ends, and why the venue refused it
SubmitAnswers ==
    { [status |-> "ok", cause |-> "none"],
      [status |-> "rejected", cause |-> "stops"],
      [status |-> "rejected", cause |-> "other"],
      [status |-> "raise", cause |-> "stops"],
      [status |-> "raise", cause |-> "other"],
      [status |-> "none", cause |-> "other"] }

\* an order carries a protective leg
HasProtection(o) == o.sl > 0 \/ Positive(o.tp)

\* the answers the venue can give to order o: it refuses an order because of
\* its protective prices only if the order has some
AnswersTo(o) ==
    { a \in SubmitAnswers : a.cause = "stops" => HasProtection(o) }

---------------------------------------------------------------------------
(* open_position: what both adapters share in the model                    *)

\* the adapter call returns r
Return(r) == result' = r /\ pc' = "done"

ReturnsNone == [kind |-> "None"]

\* the exception leaves the adapter call
Raises == [kind |-> "raise"]

\* the order of an open_position call
OpenOrder(symbol, side, qty, sl, tp) ==
    [symbol |-> symbol, side |-> side, qty |-> qty, sl |-> sl, tp |-> tp]

\* the locals of open_position on entry
EntryLocals ==
    [side |-> "none", actual_volume |-> 0, price |-> req.price,
     sl |-> req.sl, tp |-> Frac(req.tp, 1)]

---------------------------------------------------------------------------
(* BybitTrader                                                             *)

\* the calculator rounding towards zero instead of to the nearest multiple
calculate_sl_truncating(order_type, entry_price, percentage, tick_size) ==
    LET sl_price_100 == IF order_type = "BUY"
                        THEN entry_price * (100 - percentage)
                        ELSE entry_price * (100 + percentage)
    IN  (sl_price_100 \div (100 * tick_size)) * tick_size

\* calculate_sl_by_percentage, with the tick size it read from the venue
calculate_sl_by_percentage(order_type, entry_price, percentage, tick_size) ==
    LET sl_price_100 == IF order_type = "BUY"
                        THEN entry_price * (100 - percentage)
                        ELSE entry_price * (100 + percentage)
    IN  RoundHalfEven(sl_price_100, 100 * tick_size) * tick_size

\* open_position: the quantity raised to the minimum, then rounded to the step
bybit_actual_volume(volume, min_order_qty, qty_step) ==
    LET magnitude == IF volume < 0 THEN -volume ELSE volume
        raised == IF magnitude < min_order_qty THEN min_order_qty ELSE magnitude
    IN  RoundHalfEven(raised, qty_step) * qty_step

\* open_position: the take-profit of a target profit, one dollar a point
bybit_tp_by_profit(actual_order_type, price, actual_volume, profit_amount) ==
    IF actual_order_type = "BUY"
    THEN Frac(price * actual_volume + profit_amount, actual_volume)
    ELSE Frac(price * actual_volume - profit_amount, actual_volume)

BybitSuccess == [kind |-> "dict", retcode |-> RETCODE_SUCCESS, comment |-> "Success"]

BybitError(comment) == [kind |-> "dict", retcode |-> RETCODE_ERROR, comment |-> comment]

\* where open_position stands after the answer to its first place_order
bybit_after_place_order(a) == IF a.status = "raise" THEN "retry" ELSE "done"

\* a second place_order that is itself resubmitted when it raises
bybit_after_retry_again(a) == IF a.status = "raise" THEN "retry" ELSE "done"

\* where open_position stands after the answer to its second place_order
bybit_after_retry(a) == "done"

\* what open_position returns for the answer to its last place_order
bybit_result(a) ==
    CASE a.status = "ok" -> BybitSuccess
      [] a.status = "rejected" -> BybitError("retMsg")
      [] a.status = "none" -> BybitError("request failed")
      [] a.status = "raise" -> BybitError("exception")

\* open_position up to the instrument query: connection check,
\* get_instruments_info, side and quantity
BybitGetInstrumentsInfo(answer) ==
    /\ venue = "bybit" /\ pc = "start"
    /\ IF ~initialized THEN Return(ReturnsNone) /\ UNCHANGED loc
       ELSE IF answer = "raise" THEN Return(BybitError("exception")) /\ UNCHANGED loc
       ELSE IF answer = "error" THEN Return(ReturnsNone) /\ UNCHANGED loc
       ELSE IF req.volume = 0 THEN Return(ReturnsNone) /\ UNCHANGED loc
       ELSE /\ loc' = [loc EXCEPT
                    !.side = IF req.volume > 0 THEN "BUY" ELSE "SELL",
                    !.actual_volume =
                        bybit_actual_volume(req.volume, facts.min_qty, facts.qty_step)]
            /\ pc' = "get_tickers"
            /\ UNCHANGED result
    /\ UNCHANGED <<venue, initialized, req, facts, orders, outcomes>>
    /\ UNCHANGED <<mapperVars, positions, serverVars>>

\* open_position: get_tickers, entry price, take-profit of a target profit
BybitGetTickers(answer) ==
    /\ venue = "bybit" /\ pc = "get_tickers"
    /\ LET price == IF loc.price = 0 THEN facts.last ELSE loc.price
       IN  IF answer = "raise" THEN Return(BybitError("exception")) /\ UNCHANGED loc
           ELSE IF answer = "error" THEN Return(ReturnsNone) /\ UNCHANGED loc
           ELSE IF req.profit_amount > 0 /\ loc.actual_volume = 0
           THEN \* ZeroDivisionError, caught by the outer handler
                Return(BybitError("exception")) /\ UNCHANGED loc
           ELSE /\ loc' = [loc EXCEPT
                        !.price = price,
                        !.tp = IF req.profit_amount > 0
                               THEN bybit_tp_by_profit(loc.side, price,
                                        loc.actual_volume, req.profit_amount)
                               ELSE loc.tp]
                /\ pc' = IF loc.sl = 0 THEN "calculate_sl" ELSE "place_order"
                /\ UNCHANGED result
    /\ UNCHANGED <<venue, initialized, req, facts, orders, outcomes>>
    /\ UNCHANGED <<mapperVars, positions, serverVars>>

\* an open_position that gives up when the automatic stop-loss is 0.0
BybitCalculateSlFatal(answer) ==
    /\ venue = "bybit" /\ pc = "calculate_sl"
    /\ IF answer = "ok"
       THEN /\ loc' = [loc EXCEPT !.sl =
                         calculate_sl_by_percentage(loc.side, loc.price,
                             SL_PERCENTAGE, facts.tick_size)]
            /\ pc' = "place_order"
            /\ UNCHANGED result
       ELSE Return(ReturnsNone) /\ UNCHANGED loc
    /\ UNCHANGED <<venue, initialized, req, facts, orders, outcomes>>
    /\ UNCHANGED <<mapperVars, positions, serverVars>>

\* open_position: the automatic stop-loss; calculate_sl_by_percentage
\* returns 0.0 when its own instrument query fails or raises
BybitCalculateSl(answer) ==
    /\ venue = "bybit" /\ pc = "calculate_sl"
    /\ loc' = [loc EXCEPT !.sl =
                 IF answer = "ok"
                 THEN calculate_sl_by_percentage(loc.side, loc.price,
                          SL_PERCENTAGE, facts.tick_size)
                 ELSE 0]
    /\ pc' = "place_order"
    /\ UNCHANGED <<venue, initialized, req, facts, orders, outcomes, result>>
    /\ UNCHANGED <<mapperVars, positions, serverVars>>

\* open_position: the first place_order, with the protective legs that are set
BybitPlaceOrder(a) ==
    /\ venue = "bybit" /\ pc = "place_order"
    /\ LET o == OpenOrder(req.symbol, loc.side, loc.actual_volume,
                          IF loc.sl > 0 THEN loc.sl ELSE 0,
                          IF Positive(loc.tp) THEN loc.tp ELSE NoPrice)
       IN  /\ a \in AnswersTo(o)
           /\ orders' = Append(orders, o)
           /\ outcomes' = Append(outcomes, a)
    /\ pc' = bybit_after_place_order(a)
    /\ result' = IF pc' = "done" THEN bybit_result(a) ELSE result
    /\ UNCHANGED <<venue, initialized, req, facts, loc>>
    /\ UNCHANGED <<mapperVars, positions, serverVars>>

\* open_position: the exception handler of the first place_order submits the
\* order again without stop-loss and take-profit
BybitPlaceOrderRetry(a) ==
    /\ venue = "bybit" /\ pc = "retry"
    /\ LET o == OpenOrder(req.symbol, loc.side, loc.actual_volume, 0, NoPrice)
       IN  /\ a \in AnswersTo(o)
           /\ orders' = Append(orders, o)
           /\ outcomes' = Append(outcomes, a)
    /\ pc' = bybit_after_retry(a)
    /\ result' = IF pc' = "done" THEN bybit_result(a) ELSE result
    /\ UNCHANGED <<venue, initialized, req, facts, loc>>
    /\ UNCHANGED <<mapperVars, positions, serverVars>>

---------------------------------------------------------------------------
(* MT5Trader                                                               *)

\* calculate_tp_by_profit_amount, with the symbol facts f it read: the
\* target price, clamped to the minimum distance from the entry price, then
\* rounded to the price digits; 0 when it cannot be computed
calculate_tp_by_profit_amount(order_type, volume, entry_price, profit_amount, f) ==
    IF f.tick_value = 0 \/ f.tick_size = 0 THEN 0
    ELSE IF volume = 0 THEN 0      \* ZeroDivisionError, caught
    ELSE LET value_per_tick == f.tick_value * volume
             \* tp_price = unclamped / value_per_tick
             unclamped == IF order_type = "BUY"
                          THEN entry_price * value_per_tick + profit_amount * f.tick_size
                          ELSE entry_price * value_per_tick - profit_amount * f.tick_size
             min_distance == f.stops_level * f.point
             min_tp_price == entry_price + min_distance
             max_tp_price == entry_price - min_distance
             tp_price == IF order_type = "BUY"
                         THEN IF unclamped < min_tp_price * value_per_tick
                              THEN min_tp_price * value_per_tick
                              ELSE unclamped
                         ELSE IF unclamped > max_tp_price * value_per_tick
                              THEN max_tp_price * value_per_tick
                              ELSE unclamped
         IN  RoundHalfEven(tp_price, value_per_tick * f.point) * f.point

\* the OrderSendResult of an answered order_send
MT5Result(a) ==
    [kind |-> "OrderSendResult",
     retcode |-> IF a.status = "ok" THEN "TRADE_RETCODE_DONE"
                 ELSE IF a.cause = "stops" THEN "TRADE_RETCODE_INVALID_STOPS"
                 ELSE "TRADE_RETCODE_REJECT"]

\* what open_position returns for the answer to order_send
mt5_result(a) == IF a.status = "none" THEN ReturnsNone ELSE MT5Result(a)

\* open_position up to the order type: symbol_info (and symbol_select),
\* the magnitude of the volume, the order type
MT5SymbolInfo(answer) ==
    /\ venue = "mt5" /\ pc = "start"
    /\ IF answer = "error" THEN Return(ReturnsNone) /\ UNCHANGED loc
       ELSE IF req.order_type \notin {"BUY", "SELL"}
       THEN Return(ReturnsNone) /\ UNCHANGED loc
       ELSE /\ loc' = [loc EXCEPT
                    !.side = req.order_type,
                    !.actual_volume = IF req.volume < 0 THEN -req.volume
                                      ELSE req.volume]
            /\ pc' = "symbol_info_tick"
            /\ UNCHANGED result
    /\ UNCHANGED <<venue, initialized, req, facts, orders, outcomes>>
    /\ UNCHANGED <<mapperVars, positions, serverVars>>

\* open_position: symbol_info_tick(symbol).ask or .bid, the entry price
MT5SymbolInfoTick(answer) ==
    /\ venue = "mt5" /\ pc = "symbol_info_tick"
    /\ IF answer = "error"
       THEN \* symbol_info_tick returned None: AttributeError
            Return(Raises) /\ UNCHANGED loc
       ELSE /\ loc' = [loc EXCEPT !.price =
                         IF loc.price # 0 THEN loc.price
                         ELSE IF loc.side = "BUY" THEN facts.ask ELSE facts.bid]
            /\ pc' = IF req.profit_amount > 0 THEN "calculate_tp" ELSE "order_send"
            /\ UNCHANGED result
    /\ UNCHANGED <<venue, initialized, req, facts, orders, outcomes>>
    /\ UNCHANGED <<mapperVars, positions, serverVars>>

\* open_position: the take-profit of a target profit; a result of 0 unsets it
MT5CalculateTp(answer) ==
    /\ venue = "mt5" /\ pc = "calculate_tp"
    /\ LET calculated_tp ==
             IF answer = "ok"
             THEN calculate_tp_by_profit_amount(loc.side, loc.actual_volume,
                      loc.price, req.profit_amount, facts)
             ELSE 0
       IN  loc' = [loc EXCEPT !.tp =
                     IF calculated_tp > 0 THEN Frac(calculated_tp, 1) ELSE NoPrice]
    /\ pc' = "order_send"
    /\ UNCHANGED <<venue, initialized, req, facts, orders, outcomes, result>>
    /\ UNCHANGED <<mapperVars, positions, serverVars>>

\* open_position: the request and order_send
MT5OrderSend(a) ==
    /\ venue = "mt5" /\ pc = "order_send"
    /\ LET o == OpenOrder(req.symbol, loc.side, loc.actual_volume,
                          IF loc.sl > 0 THEN loc.sl ELSE 0,
                          IF Positive(loc.tp) THEN loc.tp ELSE NoPrice)
       IN  /\ a \in AnswersTo(o)
           /\ a.status # "raise"
           /\ orders' = Append(orders, o)
           /\ outcomes' = Append(outcomes, a)
    /\ Return(mt5_result(a))
    /\ UNCHANGED <<venue, initialized, req, facts, loc>>
    /\ UNCHANGED <<mapperVars, positions, serverVars>>

---------------------------------------------------------------------------
(* One open_position call on one adapter                                   *)

\* the translator as constructed from a missing configuration file
EmptyMapper ==
    /\ symbol_mapping = << >>
    /\ reverse_mapping = EmptyMap
    /\ config_file = NoFile
    /\ ret = [op |-> "init", arg |-> Empty, val |-> TRUE, saved |-> "none"]
    /\ pre = NoRoundTrip

InitOrder ==
    /\ EmptyMapper
    /\ IdleServer
    /\ venue \in {"bybit", "mt5"}
    /\ initialized \in (IF venue = "bybit" THEN BOOLEAN ELSE {TRUE})
    /\ req \in (IF venue = "bybit" THEN BybitRequests ELSE MT5Requests)
    /\ facts \in (IF venue = "bybit" THEN BybitFacts ELSE MT5Facts)
    /\ pc = "start"
    /\ loc = EntryLocals
    /\ orders = << >>
    /\ outcomes = << >>
    /\ result = [kind |-> "pending"]
    /\ positions = << >>

NextOrder ==
    \/ \E answer \in QueryAnswers : BybitGetInstrumentsInfo(answer)
    \/ \E answer \in QueryAnswers : BybitGetTickers(answer)
    \/ \E answer \in QueryAnswers : BybitCalculateSl(answer)
    \/ \E a \in SubmitAnswers : BybitPlaceOrder(a)
    \/ \E a \in SubmitAnswers : BybitPlaceOrderRetry(a)
    \/ \E answer \in {"ok", "error"} : MT5SymbolInfo(answer)
    \/ \E answer \in {"ok", "error"} : MT5SymbolInfoTick(answer)
    \/ \E answer \in {"ok", "error"} : MT5CalculateTp(answer)
    \/ \E a \in SubmitAnswers : MT5OrderSend(a)

SpecOrder == InitOrder /\ [][NextOrder]_vars

---------------------------------------------------------------------------
(* Position closure: inputs                                                *)

\* Largest number of positions the venue holds in the model.
MaxPositions == 2

\* A Bybit position record: positionIdx (0 in one-way mode, whatever the
\* symbol), symbol, side and size; a record of size 0 has no side.
BybitPositions ==
    { [ticket |-> t, symbol |-> y, side |-> h.side, size |-> h.size] :
      t \in {0, 1}, y \in Symbols,
      h \in { [side |-> "Buy", size |-> 1], [side |-> "Sell", size |-> 2],
              [side |-> "", size |-> 0] } }

\* the lists of at most n records of S, no two for the same symbol and ticket
PositionLists(S, n) ==
    { l \in UNION { [1..k -> S] : k \in 0..n } :
        \A i, j \in DOMAIN l :
            (l[i].symbol = l[j].symbol /\ l[i].ticket = l[j].ticket) => i = j }

\* MT5 positions: the ticket is unique, the volume positive
MT5PositionLists(n) ==
    { l \in UNION { [1..k -> [ticket : 1..n, symbol : Symbols,
                              h : { [side |-> "Buy", size |-> 1],
                                    [side |-> "Sell", size |-> 2] }]] : k \in 0..n } :
        \A i \in DOMAIN l : l[i].ticket = i }

MT5Position(p) ==
    [ticket |-> p.ticket, symbol |-> p.symbol, side |-> p.h.side, size |-> p.h.size]

CloseRequests ==
    { [op |-> "close_all_positions", symbol |-> ""] }
    \cup { [op |-> "close_positions_by_symbol", symbol |-> y] : y \in Symbols }

\* the closing order of close_position_by_ticket; position is the ticket an
\* MT5 request is bound to, item the place in the enumeration of the
\* position the call was made for
CloseOrder(symbol, side, qty, reduceOnly, position, item) ==
    [symbol |-> symbol, side |-> side, qty |-> qty, reduceOnly |-> reduceOnly,
     position |-> position, item |-> item, sl |-> 0, tp |-> NoPrice]

\* SelectSeq(l, symbol matches)
RECURSIVE OfSymbol(_, _)
OfSymbol(l, symbol) ==
    IF l = << >> THEN << >>
    ELSE IF Head(l).symbol = symbol
         THEN <<Head(l)>> \o OfSymbol(Tail(l), symbol)
         ELSE OfSymbol(Tail(l), symbol)

\* the venue's list without its k-th record
RemoveAt(l, k) == SubSeq(l, 1, k - 1) \o SubSeq(l, k + 1, Len(l))

\* the answers the venue can give to a closing order: it cannot fill an
\* order of quantity 0
CloseAnswersTo(o) ==
    { a \in AnswersTo(o) : a.status = "ok" => o.qty > 0 }

---------------------------------------------------------------------------
(* Batch closure, both adapters                                            *)

\* the locals of a batch closure: how the listing of the positions ended
\* ("none": not asked), the positions enumerated, the loop's index, its
\* flag, what close_position_by_ticket returned for each item so far, and
\* the record that call found
BatchLocals(response, list_data) ==
    [response |-> response, batch |-> list_data, i |-> 1, all_closed |-> TRUE,
     closed |-> << >>, target |-> 0]

\* a batch closure that counts an empty listing as a failure
no_positions_failure == FALSE

\* what a batch closure returns when the venue lists no position
no_positions_result == TRUE

ReturnsBool(b) == [kind |-> "bool", value |-> b]

\* the loop body after close_position_by_ticket returned b for item loc.i
AfterItem(b) ==
    LET all_closed == loc.all_closed /\ b
    IN  /\ loc' = [loc EXCEPT !.all_closed = all_closed,
                              !.closed = Append(loc.closed, b),
                              !.i = loc.i + 1,
                              !.target = 0]
        /\ IF loc.i = Len(loc.batch)
           THEN Return(ReturnsBool(all_closed))
           ELSE pc' = "lookup" /\ UNCHANGED result

\* the first index of the venue's list whose record has the ticket, or 0
FirstWithTicket(l, ticket) ==
    LET hits == { k \in DOMAIN l : l[k].ticket = ticket }
    IN  IF hits = {} THEN 0 ELSE CHOOSE k \in hits : \A j \in hits : k <= j

\* BybitTrader.close_all_positions / close_positions_by_symbol up to the loop
BybitListPositions(answer) ==
    /\ venue = "bybit" /\ pc = "start"
    /\ req.op \in {"close_all_positions", "close_positions_by_symbol"}
    /\ LET list_data == IF req.op = "close_all_positions" THEN positions
                        ELSE OfSymbol(positions, req.symbol)
       IN  IF ~initialized
           THEN Return(ReturnsBool(FALSE)) /\ UNCHANGED loc
           ELSE IF answer # "ok"
           THEN Return(ReturnsBool(FALSE)) /\ loc' = BatchLocals(answer, << >>)
           ELSE IF list_data = << >>
           THEN /\ Return(ReturnsBool(no_positions_result))
                /\ loc' = BatchLocals(answer, << >>)
           ELSE /\ loc' = BatchLocals(answer, list_data)
                /\ pc' = "lookup" /\ UNCHANGED result
    /\ UNCHANGED <<venue, initialized, req, facts, orders, outcomes, positions>>
    /\ UNCHANGED <<mapperVars, serverVars>>

\* BybitTrader.close_position_by_ticket(positionIdx of item loc.i), up to
\* the search of the venue's whole position list for the first record with
\* that positionIdx
BybitCloseLookup(answer) ==
    /\ venue = "bybit" /\ pc = "lookup"
    /\ LET k == FirstWithTicket(positions, loc.batch[loc.i].ticket)
       IN  IF answer # "ok" \/ k = 0
           THEN AfterItem(FALSE)
           ELSE loc' = [loc EXCEPT !.target = k] /\ pc' = "order"
                /\ UNCHANGED result
    /\ UNCHANGED <<venue, initialized, req, facts, orders, outcomes, positions>>
    /\ UNCHANGED <<mapperVars, serverVars>>

\* BybitTrader.close_position_by_ticket: the reduce-only market order for the
\* record found, and its answer (an exception is caught and gives False)
BybitCloseOrder(a) ==
    /\ venue = "bybit" /\ pc = "order"
    /\ LET target_position == positions[loc.target]
           o == CloseOrder(target_position.symbol,
                           IF target_position.side = "Buy" THEN "Sell" ELSE "Buy",
                           target_position.size, TRUE, 0, loc.i)
       IN  /\ a \in CloseAnswersTo(o)
           /\ orders' = Append(orders, o)
           /\ outcomes' = Append(outcomes, a)
           /\ positions' = IF a.status = "ok" THEN RemoveAt(positions, loc.target)
                           ELSE positions
    /\ AfterItem(a.status = "ok")
    /\ UNCHANGED <<venue, initialized, req, facts>>
    /\ UNCHANGED <<mapperVars, serverVars>>

\* MT5Trader.close_all_positions / close_positions_by_symbol up to the loop;
\* positions_get returns None on an error
MT5ListPositions(answer) ==
    /\ venue = "mt5" /\ pc = "start"
    /\ req.op \in {"close_all_positions", "close_positions_by_symbol"}
    /\ LET list_data == IF req.op = "close_all_positions" THEN positions
                        ELSE OfSymbol(positions, req.symbol)
       IN  IF ~initialized
           THEN Return(ReturnsBool(FALSE)) /\ UNCHANGED loc
           ELSE IF answer # "ok" \/ list_data = << >>
           THEN /\ Return(ReturnsBool(no_positions_result))
                /\ loc' = BatchLocals(answer, << >>)
           ELSE /\ loc' = BatchLocals(answer, list_data)
                /\ pc' = "lookup" /\ UNCHANGED result
    /\ UNCHANGED <<venue, initialized, req, facts, orders, outcomes, positions>>
    /\ UNCHANGED <<mapperVars, serverVars>>

\* MT5Trader.close_position_by_ticket(ticket of item loc.i) up to the
\* request: positions_get(ticket), symbol_info ("error": one of them gives
\* nothing), symbol_info_tick ("raise": it gives None, AttributeError)
MT5CloseLookup(answer) ==
    /\ venue = "mt5" /\ pc = "lookup"
    /\ LET k == FirstWithTicket(positions, loc.batch[loc.i].ticket)
       IN  IF answer = "raise" /\ k # 0
           THEN Return(Raises) /\ UNCHANGED loc
           ELSE IF answer # "ok" \/ k = 0
           THEN AfterItem(FALSE)
           ELSE loc' = [loc EXCEPT !.target = k] /\ pc' = "order"
                /\ UNCHANGED result
    /\ UNCHANGED <<venue, initialized, req, facts, orders, outcomes, positions>>
    /\ UNCHANGED <<mapperVars, serverVars>>

\* MT5Trader.close_position_by_ticket: order_send of the opposing deal bound
\* to the ticket; result.retcode of a None result is an AttributeError
MT5CloseOrder(a) ==
    /\ venue = "mt5" /\ pc = "order"
    /\ LET position == positions[loc.target]
           o == CloseOrder(position.symbol,
                           IF position.side = "Buy" THEN "Sell" ELSE "Buy",
                           position.size, FALSE, position.ticket, loc.i)
       IN  /\ a \in CloseAnswersTo(o)
           /\ a.status # "raise"
           /\ orders' = Append(orders, o)
           /\ outcomes' = Append(outcomes, a)
           /\ positions' = IF a.status = "ok" THEN RemoveAt(positions, loc.target)
                           ELSE positions
    /\ IF a.status = "none"
       THEN Return(Raises) /\ UNCHANGED loc
       ELSE AfterItem(a.status = "ok")
    /\ UNCHANGED <<venue, initialized, req, facts>>
    /\ UNCHANGED <<mapperVars, serverVars>>

InitClose ==
    /\ EmptyMapper
    /\ IdleServer
    /\ venue \in {"bybit", "mt5"}
    /\ initialized \in BOOLEAN
    /\ req \in CloseRequests
    /\ facts = [symbol_info |-> "none"]
    /\ pc = "start"
    /\ loc = BatchLocals("none", << >>)
    /\ orders = << >>
    /\ outcomes = << >>
    /\ result = [kind |-> "pending"]
    /\ positions \in
         (IF venue = "bybit"
          THEN PositionLists(BybitPositions, MaxPositions)
          ELSE { [i \in DOMAIN l |-> MT5Position(l[i])] :
                 l \in MT5PositionLists(MaxPositions) })

NextClose ==
    \/ \E answer \in QueryAnswers : BybitListPositions(answer)
    \/ \E answer \in QueryAnswers : BybitCloseLookup(answer)
    \/ \E a \in SubmitAnswers : BybitCloseOrder(a)
    \/ \E answer \in {"ok", "error"} : MT5ListPositions(answer)
    \/ \E answer \in QueryAnswers : MT5CloseLookup(answer)
    \/ \E a \in SubmitAnswers : MT5CloseOrder(a)

SpecClose == InitClose /\ [][NextClose]_vars

---------------------------------------------------------------------------
(* Properties of the symbol translation                                    *)

\* the indices of the longest keys of sm that are substrings of s
LongestMatches(sm, s) ==
    { i \in DOMAIN sm :
        /\ IsSubstring(sm[i].key, s)
        /\ \A j \in DOMAIN sm :
              IsSubstring(sm[j].key, s) => Len(sm[j].key) <= Len(sm[i].key) }

\* C1: for every table and every external identifier S that is not itself a
\* key, map_to_mt5(S) and get_volume_ratio(S) return the venue identifier and
\* the ratio of the longest key that is a substring of S, whatever the
\* insertion order of the keys.
C1_LongestKeyResolves ==
    /\ (ret.op = "map_to_mt5" /\ ret.arg \notin Keys(symbol_mapping))
          => \A i \in LongestMatches(symbol_mapping, ret.arg) :
                ret.val = symbol_mapping[i].symbol
    /\ (ret.op = "get_volume_ratio" /\ ret.arg \notin Keys(symbol_mapping))
          => \A i \in LongestMatches(symbol_mapping, ret.arg) :
                ret.val = symbol_mapping[i].volume_ratio

\* the external identifiers resolve is asked about
ResolveInputs == ExtIds \cup { <<3>> }

\* resolve (symbol and ratio) answers alike on the tables sm1 and sm2
SameResolve(sm1, sm2) ==
    \A s \in ResolveInputs :
        /\ map_to_mt5(sm1, s) = map_to_mt5(sm2, s)
        /\ get_volume_ratio(sm1, s) = get_volume_ratio(sm2, s)

\* the reverse translation answers alike on the reverse indices rm1 and rm2
SameReverse(rm1, rm2) ==
    \A v \in Venues : map_from_mt5(rm1, v) = map_from_mt5(rm2, v)

\* C6: add_mapping(E, V, r) followed by remove_mapping(E) leaves resolve
\* (symbol and ratio) and the reverse translation answering for every input
\* what they answered before the add, whether or not E was a key before.
C6_AddRemoveRestores ==
    pre.phase = "removed"
        => /\ SameResolve(symbol_mapping, pre.sm)
           /\ SameReverse(reverse_mapping, pre.rm)

\* C7: after any sequence of load, add, remove and clear operations, every
\* venue identifier in the reverse index is the venue identifier of at least
\* one forward entry.
C7_ReverseHasForward ==
    \A v \in DOMAIN reverse_mapping :
        \E i \in DOMAIN symbol_mapping : symbol_mapping[i].symbol = v

---------------------------------------------------------------------------
(* Properties of open_position                                             *)

\* the first submission was refused because of its protective prices
FirstRefusedForStops ==
    /\ Len(orders) >= 1
    /\ HasProtection(orders[1])
    /\ outcomes[1].status \in {"rejected", "raise"}
    /\ outcomes[1].cause = "stops"

\* the call returned a success for answer a of the venue
ReturnedOutcomeOf(a) ==
    IF venue = "bybit" THEN result = bybit_result(a) ELSE result = mt5_result(a)

\* C2: when the first submission of open_position, carrying stop-loss and/or
\* take-profit, is refused by the venue because of its protective prices,
\* exactly one further submission is made, for the same instrument, side and
\* quantity and without stop-loss and take-profit, and the call returns the
\* outcome of that second submission; on both adapters.
C2_OneResubmissionWithoutProtection ==
    (pc = "done" /\ FirstRefusedForStops)
        => /\ Len(orders) = 2
           /\ orders[2] = [orders[1] EXCEPT !.sl = 0, !.tp = NoPrice]
           /\ ReturnedOutcomeOf(outcomes[2])

\* C3: under every sequence of venue answers and exceptions one open_position
\* call submits at most two orders, and a failure of the second submission
\* ends the call with an error outcome, without a further submission.
C3_AtMostTwoSubmissions ==
    /\ Len(orders) <= 2
    /\ (Len(orders) = 2 /\ outcomes[2].status # "ok")
          => /\ pc = "done"
             /\ result.kind = "dict"
             /\ result.retcode = RETCODE_ERROR

\* a call whose second submission raised and that returned the error
C3_SecondFailureReturned ==
    /\ pc = "done"
    /\ Len(orders) = 2
    /\ outcomes[1].status = "raise"
    /\ outcomes[2].status = "raise"
    /\ result = BybitError("exception")

\* C4: for every requested quantity q > 0 and every minimum quantity and
\* quantity step of the venue, the quantity open_position submits is an exact
\* multiple of the step and at least the minimum.
C4_QuantityNormalized ==
    req.op = "open_position" /\ req.volume > 0
        => \A k \in DOMAIN orders :
              /\ orders[k].qty % facts.qty_step = 0
              /\ orders[k].qty >= facts.min_qty

\* C5: the take-profit open_position attaches for a target profit is never
\* closer to the entry price than the minimum protective distance, the final
\* rounding to price digits included: at or above entry + distance for a
\* long, at or below entry - distance for a short.
C5_TakeProfitKeepsDistance ==
    req.op = "open_position" /\ req.profit_amount > 0
        => \A k \in DOMAIN orders :
              LET tp == orders[k].tp
                  min_distance == facts.stops_level * facts.point
              IN  Positive(tp)
                    => IF orders[k].side = "BUY"
                       THEN tp.num >= (loc.price + min_distance) * tp.den
                       ELSE tp.num <= (loc.price - min_distance) * tp.den

---------------------------------------------------------------------------
(* Properties of the batch closures                                        *)

\* the closing order o is the one for position p
ClosesPosition(o, p) ==
    /\ o.symbol = p.symbol
    /\ o.side = (IF p.side = "Buy" THEN "Sell" ELSE "Buy")
    /\ o.qty = p.size
    /\ (o.reduceOnly \/ o.position = p.ticket)

\* C8: every closing order a batch closure issues targets the enumerated
\* position it was issued for (same instrument, opposing side, full
\* quantity, reduce-only or bound to the ticket), and a completed batch has
\* issued exactly one closing order per enumerated position whose lookup
\* succeeded, also when positions share a positionIdx.
C8_OneClosingOrderPerPosition ==
    req.op \in {"close_all_positions", "close_positions_by_symbol"}
        => /\ \A k \in DOMAIN orders :
                 ClosesPosition(orders[k], loc.batch[orders[k].item])
           /\ \A k, j \in DOMAIN orders :
                 orders[k].item = orders[j].item => k = j

\* C9: a failed closure of one position does not stop a batch closure: when
\* the call is over a closure was attempted for every enumerated position,
\* and the call returned true exactly if every one of them returned true.
C9_BatchRunsToTheEnd ==
    (/\ req.op \in {"close_all_positions", "close_positions_by_symbol"}
     /\ pc = "done"
     /\ loc.batch # << >>)
        => /\ result.kind = "bool"
           /\ Len(loc.closed) = Len(loc.batch)
           /\ result.value = (\A i \in DOMAIN loc.closed : loc.closed[i])

---------------------------------------------------------------------------
(* Properties of open_position: zero quantities                            *)

\* the call is over and did not report a success: it returned None, an
\* error result, or raised
ReturnedNoSuccess ==
    /\ pc = "done"
    /\ result.kind \in {"None", "dict", "OrderSendResult", "raise"}
    /\ (result.kind = "dict" => result.retcode # RETCODE_SUCCESS)
    /\ (result.kind = "OrderSendResult" => result.retcode # "TRADE_RETCODE_DONE")

\* C11: an open_position call with requested volume 0 submits no order to
\* the venue and, when it is over, has returned an error; on both adapters.
C11_ZeroVolumeRefused ==
    (req.op = "open_position" /\ req.volume = 0)
        => /\ orders = << >>
           /\ (pc = "done" => ReturnedNoSuccess)

\* C12: when the quantity is zero after the rounding to the nearest multiple
\* of the quantity step, open_position submits no order (none of quantity 0)
\* and, when it is over, has returned an error.
C12_ZeroAfterRoundingRefused ==
    (/\ req.op = "open_position"
     /\ venue = "bybit"
     /\ req.volume # 0
     /\ bybit_actual_volume(req.volume, facts.min_qty, facts.qty_step) = 0)
        => /\ orders = << >>
           /\ (pc = "done" => ReturnedNoSuccess)

---------------------------------------------------------------------------
(* Properties of the symbol translation: no match, volume scaling          *)

\* s is no key of sm and no key of sm is a substring of s
NothingMatches(sm, s) ==
    /\ s \notin Keys(sm)
    /\ \A i \in DOMAIN sm : ~IsSubstring(sm[i].key, s)

\* C20: for an external identifier S that is no key and contains no key,
\* map_to_mt5(S) returns S, get_volume_ratio(S) returns 1.0 and
\* map_volume(S, v) returns v; in all cases map_volume(S, v) is
\* v * get_volume_ratio(S).
C20_NoMatchIsIdentity ==
    /\ (ret.op = "map_to_mt5" /\ NothingMatches(symbol_mapping, ret.arg))
          => ret.val = ret.arg
    /\ (ret.op = "get_volume_ratio" /\ NothingMatches(symbol_mapping, ret.arg))
          => ret.val = 1
    /\ ret.op = "map_volume"
          => /\ ret.val.mapped
                  = ret.val.volume * get_volume_ratio(symbol_mapping, ret.arg)
             /\ NothingMatches(symbol_mapping, ret.arg)
                  => ret.val.mapped = ret.val.volume

\* a volume scaled through a containment match with ratio 2
C20_ScaledThroughMatch ==
    /\ ret.op = "map_volume"
    /\ ret.arg \notin Keys(symbol_mapping)
    /\ ~NothingMatches(symbol_mapping, ret.arg)
    /\ ret.val.mapped = 2 * ret.val.volume

---------------------------------------------------------------------------
(* Properties of the translator when persisting fails                      *)

\* C15: when save_mapping fails during add_mapping or remove_mapping, the
\* call returns false while the forward table and the reverse index hold
\* the mutation, and the configuration file still holds what it held before
\* the call.
C15_FailedSaveKeepsStore ==
    [][ (ret'.op \in {"add_mapping", "remove_mapping"} /\ ret'.saved = "failed")
          => /\ ret'.val = FALSE
             /\ ret'.op = "add_mapping"
                  => /\ ret'.arg \in Keys(symbol_mapping')
                     /\ Get(symbol_mapping', ret'.arg).symbol
                          \in DOMAIN reverse_mapping'
             /\ ret'.op = "remove_mapping"
                  => ret'.arg \notin Keys(symbol_mapping')
             /\ config_file' = config_file ]_vars

---------------------------------------------------------------------------
(* The request handlers of websocket_server.py.  One event loop runs the   *)
(* coroutines of all connections: a coroutine keeps the loop from one      *)
(* await to the next.  Only open_position hands its venue call to a worker *)
(* thread and awaits it; the envelope is sent in the step that built it,   *)
(* since `await websocket.send` is the last thing handle_message does and  *)
(* touches nothing but its own connection.  sent holds what a step sends.  *)

\* the actions handle_message dispatches on
ActionNames ==
    { "health_check", "get_account_info", "open_position",
      "close_position_by_ticket", "close_positions_by_symbol",
      "close_all_positions", "get_positions", "get_symbol_mappings",
      "add_symbol_mapping", "remove_symbol_mapping" }

\* the handlers that talk to the venue
TradingHandlers ==
    { "open_position", "close_position_by_ticket", "close_positions_by_symbol",
      "close_all_positions", "get_positions", "get_account_info" }

\* the handlers that close positions
ClosureHandlers ==
    { "close_position_by_ticket", "close_positions_by_symbol", "close_all_positions" }

\* the parameters tried with each action: <<symbol, number>>, the number
\* being the volume, the ticket or the volume_ratio
Params(a) ==
    CASE a = "open_position" -> { Empty, <<2>> } \X { 0, 1 }
      [] a = "close_position_by_ticket" -> { Empty } \X { 0, 1 }
      [] a \in { "close_positions_by_symbol", "get_positions",
                 "remove_symbol_mapping" } -> { Empty, <<2>> } \X { 0 }
      [] a = "add_symbol_mapping" -> { Empty, <<2>> } \X { 2 }
      [] OTHER -> { <<Empty, 0>> }

\* what a client sends: text that is not JSON, JSON that is not an object,
\* and objects with a known or unknown action, with or without an id
Messages ==
    { [form |-> f, action |-> "none", id |-> NoId, symbol |-> Empty, n |-> 0] :
        f \in { "invalid_json", "not_object" } }
    \cup UNION { { [form |-> "object", action |-> a, id |-> i,
                    symbol |-> p[1], n |-> p[2]] :
                     i \in { NoId, 7 }, p \in Params(a) } :
                 a \in ActionNames \cup { "no_such_action" } }

\* the venue symbol add_symbol_mapping requests name
ServerVenueSymbol == <<8>>

\* the uniform envelope a handler returns
Envelope(status, message) == [status |-> status, message |-> message, id |-> NoId]

\* a handle_message that sends the handler's envelope as it is
without_id(response, msg) == response

\* handle_message: `if 'id' in data: response['id'] = data['id']`
with_id(response, msg) == [response EXCEPT !.id = msg.id]

\* a chain that sends get_positions to the handler of remove_symbol_mapping
dispatch_positions_to_remove(action) ==
    IF action = "get_positions" THEN "remove_symbol_mapping"
    ELSE IF action \in ActionNames THEN action ELSE "unknown"

\* handle_message's if/elif chain
dispatch(action) == IF action \in ActionNames THEN action ELSE "unknown"

\* handlers that go to the venue without looking at the connection
checks_nothing(handler) == FALSE

\* the handlers that open with `if not trader or not trader.is_connected()`
checks_connection(handler) == handler \in TradingHandlers

\* a coroutine that gives the event loop away after every step
yields_after_every_step(p) == TRUE

\* where a coroutine gives the event loop away: waiting for the next message
\* and awaiting the worker thread
Yields(p) == p \in { "idle", "awaiting" }

\* a timeout answered in the words of a venue rejection
timeout_as_rejection == [status |-> "error", message |-> "failed", id |-> NoId]

\* what open_position answers for asyncio.TimeoutError
timeout_response == Envelope("error", "timeout")

\* what open_position answers when the venue refused the order
rejected_response == Envelope("error", "failed")

tableVars == <<symbol_mapping, reverse_mapping, config_file>>

adapterVars == <<ret, pre, venue, req, facts, pc, loc, orders, outcomes, result,
                 positions>>

\* the coroutine of connection c stands at p and can have the event loop
Turn(c, p) == task[c].pc = p /\ running \in {0, c}

\* handle_message dispatched the object in hand to handler h
Handler(c, h) ==
    /\ Turn(c, "dispatch")
    /\ task[c].msg.form = "object"
    /\ dispatch(task[c].msg.action) = h

\* the handler's connectivity check fails
Refused(h) == checks_connection(h) /\ ~initialized

\* the coroutine of c moves on to t
Step(c, t) ==
    /\ task' = [task EXCEPT ![c] = t]
    /\ running' = IF Yields(t.pc) THEN 0 ELSE c

\* the handler returns response; handle_message adds the id and sends it
Respond(c, response) ==
    /\ Step(c, IdleTask)
    /\ sent' = [NothingSent EXCEPT ![c] = <<with_id(response, task[c].msg)>>]

\* websocket_handler: the next message of the connection arrives
Receive(c, m) ==
    /\ Turn(c, "idle")
    /\ m.action = "open_position" => jobs[c].abandoned # "running"
    /\ Step(c, [pc |-> "dispatch", msg |-> m, loc |-> NoLocals])
    /\ sent' = NothingSent
    /\ UNCHANGED <<tableVars, adapterVars, initialized, jobs>>

\* handle_message: json.loads raises, or data.get raises on a non-object
BadMessage(c) ==
    /\ Turn(c, "dispatch")
    /\ task[c].msg.form \in { "invalid_json", "not_object" }
    /\ Step(c, IdleTask)
    /\ sent' = [NothingSent EXCEPT ![c] =
                  <<Envelope("error", IF task[c].msg.form = "invalid_json"
                                      THEN "invalid_json" ELSE "exception")>>]
    /\ UNCHANGED <<tableVars, adapterVars, initialized, jobs>>

\* handle_message: no branch for the action
UnknownAction(c) ==
    /\ Handler(c, "unknown")
    /\ Respond(c, Envelope("error", "unknown_action"))
    /\ UNCHANGED <<tableVars, adapterVars, initialized, jobs>>

\* health_check
HealthCheck(c) ==
    /\ Handler(c, "health_check")
    /\ Respond(c, IF initialized THEN Envelope("success", "ok")
                  ELSE Envelope("error", "unhealthy"))
    /\ UNCHANGED <<tableVars, adapterVars, initialized, jobs>>

\* get_account_info
GetAccountInfo(c, answer) ==
    /\ Handler(c, "get_account_info")
    /\ Respond(c, IF Refused("get_account_info") THEN Envelope("error", "not_connected")
                  ELSE IF answer = "raise" THEN Envelope("error", "exception")
                  ELSE IF answer = "error" THEN Envelope("error", "failed")
                  ELSE Envelope("success", "ok"))
    /\ UNCHANGED <<tableVars, adapterVars, initialized, jobs>>

\* open_position up to map_to_mt5
OpenPosition(c) ==
    LET t == task[c]
    IN  /\ Handler(c, "open_position")
        /\ IF Refused("open_position")
           THEN Respond(c, Envelope("error", "not_connected"))
           ELSE IF t.msg.symbol = Empty
           THEN Respond(c, Envelope("error", "missing_parameter"))
           ELSE /\ Step(c, [t EXCEPT !.pc = "map_volume",
                                     !.loc.symbol = map_to_mt5(symbol_mapping, t.msg.symbol),
                                     !.loc.seen = <<symbol_mapping>>])
                /\ sent' = NothingSent
        /\ UNCHANGED <<tableVars, adapterVars, initialized, jobs>>

\* open_position: map_volume and the check of the required parameters
OpenMapVolume(c) ==
    LET t == task[c]
    IN  /\ Turn(c, "map_volume")
        /\ IF t.msg.n = 0
           THEN Respond(c, Envelope("error", "missing_parameter"))
           ELSE /\ Step(c, [t EXCEPT !.pc = "get_volume_ratio",
                                     !.loc.volume = map_volume(symbol_mapping, t.msg.symbol, t.msg.n),
                                     !.loc.seen = Append(@, symbol_mapping)])
                /\ sent' = NothingSent
        /\ UNCHANGED <<tableVars, adapterVars, initialized, jobs>>

\* open_position: get_volume_ratio, then run_in_executor and the await
OpenGetVolumeRatio(c) ==
    LET t == task[c]
    IN  /\ Turn(c, "get_volume_ratio")
        /\ Step(c, [t EXCEPT !.pc = "awaiting",
                             !.loc.volume_ratio = get_volume_ratio(symbol_mapping, t.msg.symbol),
                             !.loc.seen = Append(@, symbol_mapping)])
        /\ jobs' = [jobs EXCEPT ![c].awaited = "running"]
        /\ UNCHANGED <<tableVars, adapterVars, initialized>>
        /\ sent' = NothingSent

\* the worker thread's trader.open_position comes back: the order placed,
\* refused by the venue, or an exception.  An abandoned call that placed
\* nothing leaves nothing behind.
WorkerFinishes(c, slot, outcome) ==
    /\ jobs[c][slot] = "running"
    /\ jobs' = [jobs EXCEPT ![c][slot] =
                  IF slot = "abandoned" /\ outcome # "placed" THEN "none" ELSE outcome]
    /\ sent' = NothingSent
    /\ UNCHANGED <<tableVars, adapterVars, initialized, task, running>>

\* open_position after the await: the worker thread's result
OpenReturns(c) ==
    /\ Turn(c, "awaiting")
    /\ jobs[c].awaited \in { "placed", "rejected", "raised" }
    /\ Respond(c, IF jobs[c].awaited = "placed" THEN Envelope("success", "ok")
                  ELSE IF jobs[c].awaited = "rejected" THEN rejected_response
                  ELSE Envelope("error", "exception"))
    /\ jobs' = [jobs EXCEPT ![c].awaited = "none"]
    /\ UNCHANGED <<tableVars, adapterVars, initialized>>

\* open_position: asyncio.wait_for gives up after 90 seconds; the worker
\* thread goes on
OpenTimesOut(c) ==
    /\ Turn(c, "awaiting")
    /\ jobs[c].awaited = "running"
    /\ Respond(c, timeout_response)
    /\ jobs' = [jobs EXCEPT ![c] = [awaited |-> "none", abandoned |-> "running"]]
    /\ UNCHANGED <<tableVars, adapterVars, initialized>>

\* close_position_by_ticket up to the call of the adapter
ClosePositionByTicket(c) ==
    /\ Handler(c, "close_position_by_ticket")
    /\ IF Refused("close_position_by_ticket")
       THEN Respond(c, Envelope("error", "not_connected"))
       ELSE IF task[c].msg.n = 0
       THEN Respond(c, Envelope("error", "missing_parameter"))
       ELSE Step(c, [task[c] EXCEPT !.pc = "venue_call"]) /\ sent' = NothingSent
    /\ UNCHANGED <<tableVars, adapterVars, initialized, jobs>>

\* close_positions_by_symbol up to the call of the adapter
ClosePositionsBySymbol(c) ==
    LET t == task[c]
    IN  /\ Handler(c, "close_positions_by_symbol")
        /\ IF Refused("close_positions_by_symbol")
           THEN Respond(c, Envelope("error", "not_connected"))
           ELSE IF t.msg.symbol = Empty
           THEN Respond(c, Envelope("error", "missing_parameter"))
           ELSE /\ Step(c, [t EXCEPT !.pc = "venue_call",
                                     !.loc.symbol = map_to_mt5(symbol_mapping, t.msg.symbol)])
                /\ sent' = NothingSent
        /\ UNCHANGED <<tableVars, adapterVars, initialized, jobs>>

\* close_all_positions up to the call of the adapter
CloseAllPositions(c) ==
    /\ Handler(c, "close_all_positions")
    /\ IF Refused("close_all_positions")
       THEN Respond(c, Envelope("error", "not_connected"))
       ELSE Step(c, [task[c] EXCEPT !.pc = "venue_call"]) /\ sent' = NothingSent
    /\ UNCHANGED <<tableVars, adapterVars, initialized, jobs>>

\* the adapter's close_* call, made in the coroutine itself, comes back
CloseReturns(c, answer) ==
    /\ Turn(c, "venue_call")
    /\ Respond(c, IF answer = "raise" THEN Envelope("error", "exception")
                  ELSE IF answer = "error" THEN Envelope("error", "failed")
                  ELSE Envelope("success", "ok"))
    /\ UNCHANGED <<tableVars, adapterVars, initialized, jobs>>

\* get_positions
GetPositions(c, answer) ==
    /\ Handler(c, "get_positions")
    /\ Respond(c, IF Refused("get_positions") THEN Envelope("error", "not_connected")
                  ELSE IF answer = "raise" THEN Envelope("error", "exception")
                  ELSE Envelope("success", "ok"))
    /\ UNCHANGED <<tableVars, adapterVars, initialized, jobs>>

\* get_symbol_mappings
GetSymbolMappings(c) ==
    /\ Handler(c, "get_symbol_mappings")
    /\ Respond(c, Envelope("success", "ok"))
    /\ UNCHANGED <<tableVars, adapterVars, initialized, jobs>>

\* add_symbol_mapping up to add_mapping's forward update
AddSymbolMapping(c) ==
    LET t == task[c]
    IN  /\ Handler(c, "add_symbol_mapping")
        /\ IF t.msg.symbol = Empty
           THEN /\ Respond(c, Envelope("error", "missing_parameter"))
                /\ UNCHANGED symbol_mapping
           ELSE /\ symbol_mapping' =
                     add_mapping(Mapper, t.msg.symbol, ServerVenueSymbol, t.msg.n).sm
                /\ Step(c, [t EXCEPT !.pc = "add_reverse"])
                /\ sent' = NothingSent
        /\ UNCHANGED <<reverse_mapping, config_file, adapterVars, initialized, jobs>>

\* add_mapping: the reverse index
AddReverse(c) ==
    LET t == task[c]
    IN  /\ Turn(c, "add_reverse")
        /\ reverse_mapping' =
             add_mapping(Mapper, t.msg.symbol, ServerVenueSymbol, t.msg.n).rm
        /\ Step(c, [t EXCEPT !.pc = "add_save"])
        /\ UNCHANGED <<symbol_mapping, config_file, adapterVars, initialized, jobs>>
        /\ sent' = NothingSent

\* add_mapping: save_mapping, and the handler's answer
AddSave(c, ok) ==
    /\ Turn(c, "add_save")
    /\ UNCHANGED <<symbol_mapping, reverse_mapping>>
    /\ save_mapping(ok)
    /\ Respond(c, IF saved(ok) THEN Envelope("success", "ok")
                  ELSE Envelope("error", "failed"))
    /\ UNCHANGED <<adapterVars, initialized, jobs>>

\* remove_symbol_mapping up to remove_mapping's forward update
RemoveSymbolMapping(c) ==
    LET t == task[c]
    IN  /\ Handler(c, "remove_symbol_mapping")
        /\ IF t.msg.symbol = Empty
           THEN /\ Respond(c, Envelope("error", "missing_parameter"))
                /\ UNCHANGED symbol_mapping
           ELSE IF t.msg.symbol \notin Keys(symbol_mapping)
           THEN /\ Respond(c, Envelope("error", "failed"))
                /\ UNCHANGED symbol_mapping
           ELSE /\ symbol_mapping' = remove_mapping(Mapper, t.msg.symbol).sm
                /\ Step(c, [t EXCEPT !.pc = "remove_reverse",
                                     !.loc.symbol = Get(symbol_mapping, t.msg.symbol).symbol])
                /\ sent' = NothingSent
        /\ UNCHANGED <<reverse_mapping, config_file, adapterVars, initialized, jobs>>

\* remove_mapping: the reverse index
RemoveReverse(c) ==
    LET t == task[c]
    IN  /\ Turn(c, "remove_reverse")
        /\ reverse_mapping' =
             IF t.loc.symbol \in DOMAIN reverse_mapping
             THEN Without(reverse_mapping, t.loc.symbol)
             ELSE reverse_mapping
        /\ Step(c, [t EXCEPT !.pc = "remove_save"])
        /\ UNCHANGED <<symbol_mapping, config_file, adapterVars, initialized, jobs>>
        /\ sent' = NothingSent

\* remove_mapping: save_mapping, and the handler's answer
RemoveSave(c, ok) ==
    /\ Turn(c, "remove_save")
    /\ UNCHANGED <<symbol_mapping, reverse_mapping>>
    /\ save_mapping(ok)
    /\ Respond(c, IF saved(ok) THEN Envelope("success", "ok")
                  ELSE Envelope("error", "failed"))
    /\ UNCHANGED <<adapterVars, initialized, jobs>>

\* the terminal goes away: is_connected() turns false
TerminalLost ==
    /\ initialized
    /\ initialized' = FALSE
    /\ sent' = NothingSent
    /\ UNCHANGED <<tableVars, adapterVars, task, running, jobs>>

\* periodic_tasks: not connected, so trader.initialize(), which may fail
PeriodicTask(ok) ==
    /\ running = 0
    /\ ~initialized
    /\ initialized' = ok
    /\ sent' = NothingSent
    /\ UNCHANGED <<tableVars, adapterVars, task, running, jobs>>

\* start_server: the translator of a missing configuration file, the
\* adapter initialized or not, no connection yet
InitServer ==
    /\ EmptyMapper
    /\ venue = "mt5"
    /\ initialized \in BOOLEAN
    /\ req = [op |-> "none"]
    /\ facts = [symbol_info |-> "none"]
    /\ pc = "idle"
    /\ loc = [side |-> "none"]
    /\ orders = << >>
    /\ outcomes = << >>
    /\ result = [kind |-> "pending"]
    /\ positions = << >>
    /\ IdleServer

NextServer ==
    \/ \E c \in Conns, m \in Messages : Receive(c, m)
    \/ \E c \in Conns : BadMessage(c)
    \/ \E c \in Conns : UnknownAction(c)
    \/ \E c \in Conns : HealthCheck(c)
    \/ \E c \in Conns, answer \in QueryAnswers : GetAccountInfo(c, answer)
    \/ \E c \in Conns : OpenPosition(c)
    \/ \E c \in Conns : OpenMapVolume(c)
    \/ \E c \in Conns : OpenGetVolumeRatio(c)
    \/ \E c \in Conns, slot \in { "awaited", "abandoned" },
          outcome \in { "placed", "rejected", "raised" } :
          WorkerFinishes(c, slot, outcome)
    \/ \E c \in Conns : OpenReturns(c)
    \/ \E c \in Conns : OpenTimesOut(c)
    \/ \E c \in Conns : ClosePositionByTicket(c)
    \/ \E c \in Conns : ClosePositionsBySymbol(c)
    \/ \E c \in Conns : CloseAllPositions(c)
    \/ \E c \in Conns, answer \in QueryAnswers : CloseReturns(c, answer)
    \/ \E c \in Conns, answer \in QueryAnswers : GetPositions(c, answer)
    \/ \E c \in Conns : GetSymbolMappings(c)
    \/ \E c \in Conns : AddSymbolMapping(c)
    \/ \E c \in Conns : AddReverse(c)
    \/ \E c \in Conns, ok \in BOOLEAN : AddSave(c, ok)
    \/ \E c \in Conns : RemoveSymbolMapping(c)
    \/ \E c \in Conns : RemoveReverse(c)
    \/ \E c \in Conns, ok \in BOOLEAN : RemoveSave(c, ok)
    \/ TerminalLost
    \/ \E ok \in BOOLEAN : PeriodicTask(ok)

SpecServer == InitServer /\ [][NextServer]_vars

---------------------------------------------------------------------------
(* Claims about the request handlers                                       *)

\* handle_message of connection c ends in this step
Finishes(c) == task[c].pc # "idle" /\ task'[c].pc = "idle"

\* C13: the handling of every message (valid request, unknown action,
\* invalid JSON, JSON that is not an object, handler or venue raising, venue
\* call timing out) sends exactly one envelope, in the step that ends it:
\* its status is success or error, it carries the request's id when the
\* request had one, and the connection is back waiting for its next message
\* with the event loop free.
C13_ExactlyOneEnvelope ==
    [][ \A c \in Conns :
          /\ Finishes(c) =>
                /\ Len(sent'[c]) = 1
                /\ sent'[c][1].status \in { "success", "error" }
                /\ task[c].msg.id # NoId => sent'[c][1].id = task[c].msg.id
                /\ task'[c] = IdleTask
                /\ running' = 0
          /\ ~Finishes(c) => sent'[c] = << >> ]_vars

\* a request with an id was answered "timeout" under its id while the other
\* connection's request is still being handled
C13_AnsweredWithId ==
    \E c \in Conns, d \in Conns :
        /\ c # d
        /\ Len(sent[c]) = 1
        /\ sent[c][1].id = 7
        /\ sent[c][1] = [timeout_response EXCEPT !.id = 7]
        /\ task[d].pc = "awaiting"

\* C14: the forward table and the reverse index change only in steps of a
\* connection whose request is add_symbol_mapping or remove_symbol_mapping;
\* every other request, however it ends, leaves both as they are.
C14_OnlyMappingRequestsWrite ==
    [][ (symbol_mapping' # symbol_mapping \/ reverse_mapping' # reverse_mapping)
          => \E c \in Conns :
                /\ task'[c] # task[c]
                /\ task[c].msg.action \in { "add_symbol_mapping", "remove_symbol_mapping" }
                /\ \A d \in Conns \ {c} : task'[d] = task[d] ]_vars

\* an open_position request resolved through a non-empty table and was
\* refused by the venue
C14_RefusedOpenOnMappedSymbol ==
    \E c \in Conns :
        /\ task[c].msg.action = "open_position"
        /\ task[c].pc = "awaiting"
        /\ jobs[c].awaited = "rejected"
        /\ task[c].loc.symbol = ServerVenueSymbol
        /\ symbol_mapping # << >>
        /\ reverse_mapping # EmptyMap

\* C16: when the wait of an open_position ends with the venue call still
\* running, that step sends the one envelope of the request, an error that
\* differs from the answer to a venue rejection, and the call is not
\* cancelled but goes on in its thread; a call goes on abandoned only after
\* such an answer, and when it ends later, whether it placed the order or
\* not, nothing is sent and no handler moves.
C16_TimeoutAnsweredOnce ==
    [][ \A c \in Conns :
          /\ (task[c].pc = "awaiting" /\ jobs[c].awaited = "running" /\ Finishes(c))
                => /\ sent'[c] = <<with_id(timeout_response, task[c].msg)>>
                   /\ timeout_response.status = "error"
                   /\ timeout_response # rejected_response
                   /\ jobs'[c] = [awaited |-> "none", abandoned |-> "running"]
          /\ (jobs'[c].abandoned = "running" /\ jobs[c].abandoned # "running")
                => /\ task[c].msg.action = "open_position"
                   /\ sent'[c] = <<with_id(timeout_response, task[c].msg)>>
          /\ (jobs[c].abandoned = "running" /\ jobs'[c].abandoned # "running")
                => /\ sent' = NothingSent
                   /\ task' = task
          /\ Len(sent'[c]) <= 1 ]_vars

\* the call of a request that was answered "timeout" placed its order, and
\* the connection is waiting for its next message
C16_PlacedAfterTimeout ==
    \E c \in Conns :
        /\ jobs[c].abandoned = "placed"
        /\ task[c] = IdleTask

\* the blocking venue call of connection c's request is in flight
InFlight(c) ==
    \/ task[c].pc = "venue_call"
    \/ task[c].pc = "awaiting" /\ jobs[c].awaited = "running"

\* C17: while the venue call of an order placement or of a position closure
\* is in flight, its handler does not hold the event loop, so a message of
\* another connection can be received and handled.
C17_VenueCallsOffTheLoop ==
    \A c \in Conns : InFlight(c) => running # c

\* add_mapping or remove_mapping of connection c's request has done some of
\* its three sub-steps and not all
MidMutation(c) ==
    task[c].pc \in { "add_reverse", "add_save", "remove_reverse", "remove_save" }

\* open_position of connection c's request has read the table and will
\* read it again
MidRead(c) == task[c].pc \in { "map_volume", "get_volume_ratio" }

\* C18: between the forward update, the reverse-index update and the
\* persistence of an add or remove, and between the three table reads of an
\* open_position, no handler of another connection takes a step and nothing
\* but the mutating handler itself changes tables or store, worker threads
\* included; the symbol, the scaled volume and the ratio of an open_position
\* are those of one and the same table.
C18_MappingStepsNotInterleaved ==
    [][ \A c \in Conns :
          /\ (MidMutation(c) \/ MidRead(c))
                => /\ \A d \in Conns \ {c} : task'[d] = task[d]
                   /\ task'[c] = task[c] => UNCHANGED tableVars
          /\ MidRead(c) => UNCHANGED tableVars
          /\ (task[c].pc = "get_volume_ratio" /\ task'[c].pc = "awaiting")
                => LET l == task'[c].loc
                       e == task[c].msg.symbol
                   IN  /\ l.seen = <<symbol_mapping, symbol_mapping, symbol_mapping>>
                       /\ l.symbol = map_to_mt5(symbol_mapping, e)
                       /\ l.volume = map_volume(symbol_mapping, e, task[c].msg.n)
                       /\ l.volume_ratio = get_volume_ratio(symbol_mapping, e) ]_vars

\* an add is between its reverse-index update and its save while the other
\* connection's open_position, resolved through a mapping, runs on a worker
\* thread
C18_MutationBesideWorker ==
    \E c \in Conns, d \in Conns :
        /\ c # d
        /\ task[c].pc = "add_save"
        /\ task[d].pc = "awaiting"
        /\ jobs[d].awaited = "running"
        /\ task[d].loc.symbol = ServerVenueSymbol
        /\ task[d].loc.volume = 2

\* C19: a trading request (open_position, the three closures, get_positions,
\* get_account_info) dispatched while the venue is not connected is answered
\* in that very step with the error "not connected": no call is handed to a
\* worker thread, no venue call is entered, and the connection state is left
\* alone; the adapter becomes connected again only in a step of the
\* periodic task, in which no handler moves.
C19_DisconnectedRefusedAtOnce ==
    [][ /\ \A c \in Conns :
              ( /\ task[c].pc = "dispatch"
                /\ task[c].msg.form = "object"
                /\ task[c].msg.action \in TradingHandlers
                /\ ~initialized
                /\ task'[c] # task[c] )
              => /\ sent'[c] = <<with_id(Envelope("error", "not_connected"), task[c].msg)>>
                 /\ task'[c] = IdleTask
                 /\ jobs' = jobs
                 /\ initialized' = initialized
        /\ (~initialized /\ initialized')
              => /\ task' = task
                 /\ sent' = NothingSent
                 /\ jobs' = jobs ]_vars

\* a request was just refused for the missing connection, with no call of
\* this connection on a worker thread
C19_RefusedNotConnected ==
    \E c \in Conns :
        /\ ~initialized
        /\ Len(sent[c]) = 1
        /\ sent[c][1].status = "error"
        /\ sent[c][1].message = "not_connected"
        /\ task[c] = IdleTask
        /\ jobs[c] = NoJobs

---------------------------------------------------------------------------
(* Contracts of remove_mapping and add_mapping                             *)

\* the entries of sm whose key is not k, in their order
RECURSIVE Others(_, _)
Others(sm, k) ==
    IF sm = << >> THEN << >>
    ELSE IF Head(sm).key = k THEN Others(Tail(sm), k)
    ELSE <<Head(sm)>> \o Others(Tail(sm), k)

\* C21: remove_mapping(E) for an E that is no key returns false and leaves
\* the forward table, the reverse index and the file as they are; for an E
\* that is a key the forward entry of E is gone and all others stay, the
\* reverse entry of E's venue symbol is gone and all others stay, and
\* save_mapping is called: when it succeeds the file holds the new table
\* and the call returns true.
C21_RemoveContract ==
    [][ ret'.op = "remove_mapping" =>
          LET E == ret'.arg
          IN  IF E \notin Keys(symbol_mapping)
              THEN /\ ret'.val = FALSE
                   /\ ret'.saved = "none"
                   /\ UNCHANGED <<symbol_mapping, reverse_mapping, config_file>>
              ELSE LET V == Get(symbol_mapping, E).symbol
                   IN  /\ symbol_mapping' = Others(symbol_mapping, E)
                       /\ E \notin Keys(symbol_mapping')
                       /\ DOMAIN reverse_mapping' = (DOMAIN reverse_mapping) \ {V}
                       /\ \A x \in DOMAIN reverse_mapping' :
                              reverse_mapping'[x] = reverse_mapping[x]
                       /\ ret'.saved \in { "ok", "failed" }
                       /\ ret'.val = (ret'.saved = "ok")
                       /\ ret'.saved = "ok" =>
                              /\ config_file'.exists /\ config_file'.readable
                              /\ config_file'.symbol_mapping = Dump(symbol_mapping') ]_vars

\* a key was removed from a table of two, its reverse entry with it, and
\* the file holds the one entry left
C21_RemovedAndPersisted ==
    /\ ret.op = "remove_mapping"
    /\ ret.val = TRUE
    /\ Len(symbol_mapping) = 1
    /\ ret.arg \notin Keys(symbol_mapping)
    /\ ret.arg \notin { reverse_mapping[x] : x \in DOMAIN reverse_mapping }
    /\ config_file.symbol_mapping = Dump(symbol_mapping)

\* the number of entries of sm under key k
Occurrences(sm, k) == Cardinality({ i \in DOMAIN sm : sm[i].key = k })

\* C22: add_mapping(E, V, r) with an empty E or an empty V returns false and
\* leaves the forward table, the reverse index and the file as they are;
\* with both non-empty the forward table has exactly one entry for E, every
\* other entry is as before, no key occurs twice, and resolving E right
\* afterwards gives V and r.
C22_AddContract ==
    [][ ret'.op = "add_mapping" =>
          LET E == ret'.arg
              V == ret'.mt5_symbol
              r == ret'.volume_ratio
          IN  IF E = Empty \/ V = Empty
              THEN /\ ret'.val = FALSE
                   /\ UNCHANGED <<symbol_mapping, reverse_mapping, config_file>>
              ELSE /\ Occurrences(symbol_mapping', E) = 1
                   /\ \A i \in DOMAIN symbol_mapping' :
                          Occurrences(symbol_mapping', symbol_mapping'[i].key) = 1
                   /\ Others(symbol_mapping', E) = Others(symbol_mapping, E)
                   /\ map_to_mt5(symbol_mapping', E) = V
                   /\ get_volume_ratio(symbol_mapping', E) = r ]_vars

\* an add overwrote the entry of its key, in a table of two, with another
\* venue symbol and another ratio
C22_Overwritten ==
    /\ ret.op = "add_mapping"
    /\ ret.val = TRUE
    /\ Len(symbol_mapping) = 2
    /\ Get(symbol_mapping, ret.arg) = symbol_mapping[1]
    /\ symbol_mapping[1].symbol = ret.mt5_symbol
    /\ symbol_mapping[1].volume_ratio = 2
    /\ \E x \in DOMAIN reverse_mapping :
           x # ret.mt5_symbol /\ reverse_mapping[x] = ret.arg

---------------------------------------------------------------------------
(* One open_position request: the handler of either service resolves the   *)
(* arguments of the adapter call from the request's parameters, then the   *)
(* adapter call runs as above.                                             *)

\* the character '@'
At == 64

\* the external symbols of open_position requests
RequestSymbols == { <<2>>, <<2, At, 3>> }

\* the mapping tables a request meets
RequestTables ==
    { << >>, <<[key |-> <<2>>, symbol |-> <<8>>, volume_ratio |-> 2]>> }

\* the parameters of an open_position request; "" and 0 are what params.get
\* gives for an absent key
OpenParams ==
    [symbol : RequestSymbols, order_type : { "BUY", "SELL", "" },
     volume : { -1, 0, 1 }, sl : OrderSls, tp : OrderTps,
     profit_amount : ProfitAmounts]

RECURSIVE before_at(_)
\* external_symbol.split('@')[0]
before_at(s) ==
    IF s = << >> THEN << >>
    ELSE IF Head(s) = At THEN << >>
    ELSE <<Head(s)>> \o before_at(Tail(s))

\* websocket_server.py, open_position: the arguments of trader.open_position
mt5_handler_arguments(sm, params) ==
    [op |-> "open_position",
     symbol |-> map_to_mt5(sm, params.symbol),
     order_type |-> params.order_type,
     volume |-> map_volume(sm, params.symbol, params.volume),
     price |-> 0, sl |-> 0, tp |-> 0,
     profit_amount |-> params.profit_amount,
     params |-> params]

\* websocket_server_bybit.py, open_position: the arguments of
\* trader.open_position
bybit_handler_arguments(sm, params) ==
    [op |-> "open_position",
     symbol |-> before_at(params.symbol),
     order_type |-> params.order_type,
     volume |-> params.volume,
     price |-> 0, sl |-> 0, tp |-> 0,
     profit_amount |-> params.profit_amount,
     params |-> params]

\* the handler answers an error without calling the adapter
HandlerRefuses == [kind |-> "refused"]

\* open_position of the request handler up to the adapter call
HandleOpenPosition ==
    /\ pc = "request"
    /\ IF ~initialized \/ req.params.volume = 0 \/ req.params.order_type = ""
       THEN /\ Return(HandlerRefuses)
            /\ UNCHANGED <<req, loc>>
       ELSE /\ req' = IF venue = "bybit"
                      THEN bybit_handler_arguments(symbol_mapping, req.params)
                      ELSE mt5_handler_arguments(symbol_mapping, req.params)
            /\ loc' = [side |-> "none", actual_volume |-> 0, price |-> req'.price,
                       sl |-> req'.sl, tp |-> Frac(req'.tp, 1)]
            /\ pc' = "start"
            /\ UNCHANGED result
    /\ UNCHANGED <<venue, initialized, facts, orders, outcomes>>
    /\ UNCHANGED <<mapperVars, positions, serverVars>>

\* `result and result.retcode == mt5.TRADE_RETCODE_DONE` of the MT5 handler,
\* `result and result.get('retcode') == 0` of the Bybit handler
HandlerSucceeds ==
    \/ result.kind = "OrderSendResult" /\ result.retcode = "TRADE_RETCODE_DONE"
    \/ result.kind = "dict" /\ result.retcode = RETCODE_SUCCESS

\* open_position of the request handler after the adapter call: the
\* envelope, with the handler's own symbol, volume and order_type as data
RespondOpenPosition ==
    /\ pc = "done"
    /\ pc' = "responded"
    /\ sent' = [sent EXCEPT ![1] =
                  IF HandlerSucceeds
                  THEN << [status |-> "success",
                           data |-> [symbol |-> req.symbol,
                                     volume |-> req.volume,
                                     type |-> req.order_type]] >>
                  ELSE << [status |-> "error"] >>]
    /\ UNCHANGED <<venue, initialized, req, facts, loc, orders, outcomes, result>>
    /\ UNCHANGED <<mapperVars, positions, task, running, jobs>>

InitRequest ==
    /\ symbol_mapping \in RequestTables
    /\ reverse_mapping = BuildReverse(symbol_mapping, EmptyMap)
    /\ config_file = IF symbol_mapping = << >>
                     THEN NoFile
                     ELSE [exists |-> TRUE, readable |-> TRUE,
                           symbol_mapping |-> Dump(symbol_mapping),
                           other |-> "settings"]
    /\ ret = [op |-> "init", arg |-> Empty, val |-> TRUE, saved |-> "none"]
    /\ pre = NoRoundTrip
    /\ IdleServer
    /\ venue \in {"bybit", "mt5"}
    /\ initialized \in BOOLEAN
    /\ req \in [op : {"open_position"}, params : OpenParams]
    /\ facts \in (IF venue = "bybit" THEN BybitFacts ELSE MT5Facts)
    /\ pc = "request"
    /\ loc = [side |-> "none"]
    /\ orders = << >>
    /\ outcomes = << >>
    /\ result = [kind |-> "pending"]
    /\ positions = << >>

NextRequest ==
    \/ HandleOpenPosition
    \/ RespondOpenPosition
    \/ \E answer \in QueryAnswers : BybitGetInstrumentsInfo(answer)
    \/ \E answer \in QueryAnswers : BybitGetTickers(answer)
    \/ \E answer \in QueryAnswers : BybitCalculateSl(answer)
    \/ \E a \in SubmitAnswers : BybitPlaceOrder(a)
    \/ \E a \in SubmitAnswers : BybitPlaceOrderRetry(a)
    \/ \E answer \in {"ok", "error"} : MT5SymbolInfo(answer)
    \/ \E answer \in {"ok", "error"} : MT5SymbolInfoTick(answer)
    \/ \E answer \in {"ok", "error"} : MT5CalculateTp(answer)
    \/ \E a \in SubmitAnswers : MT5OrderSend(a)

SpecRequest == InitRequest /\ [][NextRequest]_vars

---------------------------------------------------------------------------
(* Claims about the arguments a request hands to the adapter               *)

\* the request in hand has this explicit take-profit and no target profit
ExplicitTp(p) == p.profit_amount = 0 /\ p.tp > 0

\* C23: the first order of an open_position request with no target profit
\* amount and an explicit take-profit tp > 0 carries exactly that
\* take-profit; with a target profit amount > 0 it never carries the
\* explicit one.
C23_ExplicitTakeProfitSubmitted ==
    (pc # "request" /\ orders # << >>) =>
        /\ ExplicitTp(req.params) => orders[1].tp = Frac(req.params.tp, 1)
        /\ (req.params.profit_amount > 0 /\ req.params.tp > 0)
              => orders[1].tp # Frac(req.params.tp, 1)

\* C24: on each service, once the handler of an open_position request has
\* prepared the adapter call, the instrument of the call is
\* map_to_mt5(external_symbol) and its quantity is
\* volume * get_volume_ratio(external_symbol), both from the current table.
C24_ArgumentsThroughTranslator ==
    (pc # "request" /\ result # HandlerRefuses) =>
        /\ req.symbol = map_to_mt5(symbol_mapping, req.params.symbol)
        /\ req.volume = req.params.volume
                           * get_volume_ratio(symbol_mapping, req.params.symbol)

\* |x|
Magnitude(x) == IF x < 0 THEN -x ELSE x

\* C25: every order of an open_position call has the side of the call's
\* explicit order_type, BUY or SELL, whatever the sign of the volume, and the
\* quantity the adapter starts from is the magnitude of the volume.
C25_ExplicitSideWins ==
    (req.op = "open_position" /\ req.order_type \in { "BUY", "SELL" }) =>
        /\ \A i \in DOMAIN orders : orders[i].side = req.order_type
        /\ (venue = "mt5" /\ orders # << >>)
              => orders[1].qty = Magnitude(req.volume)

---------------------------------------------------------------------------
(* calculate_sl_by_percentage as a call of its own                         *)

\* entry prices and tick sizes in the instrument's smallest price unit
\* (10000 is 100.0 at a unit of 0.01), percentages
StopLossEntries == { 1, 3, 4, 5, 6, 10, 15, 44, 45, 100, 10000 }
StopLossTicks == { 1, 2, 10 }
StopLossPercentages == { 10, 25 }

StopLossCalls ==
    [op : {"calculate_sl_by_percentage"}, order_type : {"BUY", "SELL"},
     entry_price : StopLossEntries, percentage : StopLossPercentages]

\* the tickSize the instrument query would answer
StopLossFacts ==
    { [min_qty |-> 1, qty_step |-> 1, tick_size |-> t, last |-> 0,
       ask |-> 0, bid |-> 0, point |-> 1, stops_level |-> 0, tick_value |-> 0] :
      t \in StopLossTicks }

\* calculate_sl_by_percentage: the instrument query, then the price; 0.0
\* when the query fails or anything raises
CalculateSlByPercentage(answer) ==
    /\ req.op = "calculate_sl_by_percentage" /\ pc = "start"
    /\ result' = [kind |-> "price", computed |-> (answer = "ok"),
                  value |-> IF answer = "ok"
                            THEN calculate_sl_by_percentage(req.order_type,
                                     req.entry_price, req.percentage,
                                     facts.tick_size)
                            ELSE 0]
    /\ pc' = "done"
    /\ UNCHANGED <<venue, initialized, req, facts, loc, orders, outcomes>>
    /\ UNCHANGED <<mapperVars, positions, serverVars>>

InitStopLoss ==
    /\ EmptyMapper
    /\ IdleServer
    /\ venue = "bybit"
    /\ initialized = TRUE
    /\ req \in StopLossCalls
    /\ facts \in StopLossFacts
    /\ pc = "start"
    /\ loc = [side |-> "none"]
    /\ orders = << >>
    /\ outcomes = << >>
    /\ result = [kind |-> "pending"]
    /\ positions = << >>

NextStopLoss == \E answer \in QueryAnswers : CalculateSlByPercentage(answer)

SpecStopLoss == InitStopLoss /\ [][NextStopLoss]_vars

\* the call returned a price it computed from the tick size
SlComputed ==
    /\ req.op = "calculate_sl_by_percentage" /\ pc = "done"
    /\ result.computed

\* 100 times entry -/+ entry * pct / 100
ExactSl100 ==
    IF req.order_type = "BUY"
    THEN req.entry_price * (100 - req.percentage)
    ELSE req.entry_price * (100 + req.percentage)

\* the price is a multiple of the tick size no further than half a tick from
\* entry -/+ entry * pct / 100
NearestTick ==
    /\ result.value % facts.tick_size = 0
    /\ 2 * Magnitude(100 * result.value - ExactSl100) <= 100 * facts.tick_size

\* the price is beyond the entry price on the side where the position loses
OnLossSide ==
    IF req.order_type = "BUY" THEN result.value < req.entry_price
                              ELSE result.value > req.entry_price

\* C26 as stated: the price calculate_sl_by_percentage computes is the
\* multiple of the tick size nearest to entry -/+ entry * pct / 100 and
\* always lies on the loss side of the entry price.
C26_StopLossOnLossSide == SlComputed => (NearestTick /\ OnLossSide)

\* C26 amended: the computed price is a multiple of the tick size no further
\* than half a tick from entry -/+ entry * pct / 100 (10000 units, long, 10%,
\* tick 1 gives 9000); it lies on the loss side of the entry price whenever
\* the distance entry * pct / 100 is more than half a tick.
C26_StopLossNearestTick ==
    SlComputed =>
        /\ NearestTick
        /\ (2 * req.entry_price * req.percentage > 100 * facts.tick_size)
              => OnLossSide
        /\ (req.entry_price = 10000 /\ req.order_type = "BUY"
              /\ req.percentage = 10 /\ facts.tick_size = 1)
              => result.value = 9000

\* a long's stop-loss rounded back onto the entry price
C26_StopLossAtEntry ==
    /\ SlComputed /\ req.order_type = "BUY"
    /\ result.value = req.entry_price

---------------------------------------------------------------------------
(* The translator's read calls on every table a configuration file gives   *)

NextLookup ==
    \/ \E s \in ExtIds : MapToMt5(s)
    \/ \E s \in ExtIds : GetVolumeRatio(s)
    \/ \E s \in ExtIds, v \in Volumes : MapVolume(s, v)
    \/ \E v \in Venues : MapFromMt5(v)
    \/ GetAllMappings

SpecLookup == InitMapperOnly /\ [][NextLookup]_vars

ReadCalls ==
    { "map_to_mt5", "get_volume_ratio", "map_volume", "map_from_mt5",
      "get_all_mappings" }

\* C27: map_to_mt5, get_volume_ratio, map_volume, map_from_mt5 and
\* get_all_mappings leave the forward table, the reverse index and the
\* configuration file as they were, and what map_to_mt5 and get_volume_ratio
\* returned is what a second call with the same argument returns on the
\* table the first call left.
C27_ReadsChangeNothing ==
    [][ ret'.op \in ReadCalls =>
          /\ UNCHANGED <<symbol_mapping, reverse_mapping, config_file>>
          /\ ret'.op = "map_to_mt5"
                => ret'.val = map_to_mt5(symbol_mapping', ret'.arg)
          /\ ret'.op = "get_volume_ratio"
                => ret'.val = get_volume_ratio(symbol_mapping', ret'.arg)
          /\ ret'.op = "get_all_mappings" => ret'.val = symbol_mapping ]_vars

\* map_to_mt5 resolved an identifier through a table read from the file
C27_ResolvedFromLoadedTable ==
    /\ ret.op = "map_to_mt5"
    /\ ret.val # ret.arg
    /\ symbol_mapping # << >>
    /\ config_file.symbol_mapping # << >>

\* C28: when the identifier is itself a key of the forward table,
\* map_to_mt5 returns that key's venue symbol and get_volume_ratio that
\* key's ratio, also when a key that is a proper substring of the identifier
\* comes earlier in the table.
C28_ExactKeyWins ==
    /\ (ret.op = "map_to_mt5" /\ ret.arg \in Keys(symbol_mapping))
          => \E i \in DOMAIN symbol_mapping :
                /\ symbol_mapping[i].key = ret.arg
                /\ ret.val = symbol_mapping[i].symbol
    /\ (ret.op = "get_volume_ratio" /\ ret.arg \in Keys(symbol_mapping))
          => \E i \in DOMAIN symbol_mapping :
                /\ symbol_mapping[i].key = ret.arg
                /\ ret.val = symbol_mapping[i].volume_ratio

\* the identifier is a key, and an earlier key with another venue symbol is
\* a proper substring of it
C28_ShorterKeyEarlier ==
    /\ ret.op = "map_to_mt5"
    /\ \E i, j \in DOMAIN symbol_mapping :
          /\ j < i
          /\ symbol_mapping[i].key = ret.arg
          /\ symbol_mapping[j].key # ret.arg
          /\ IsSubstring(symbol_mapping[j].key, ret.arg)
          /\ symbol_mapping[j].symbol # symbol_mapping[i].symbol

---------------------------------------------------------------------------
(* Claims about what open_position does when a submission or a protective   *)
(* price fails                                                              *)

\* C29: an order is submitted a second time only after the venue refused the
\* first submission because of its protective prices; a first submission
\* that failed for another reason (margin, quantity, transport), or that
\* carried neither stop-loss nor take-profit, is not followed by another.
C29_FallbackOnlyForStops ==
    (req.op = "open_position" /\ Len(orders) >= 2) =>
        /\ HasProtection(orders[1])
        /\ outcomes[1].cause = "stops"

\* sl is a multiple of the tick size no further than half a tick from the
\* price 10% beyond the entry price on the losing side
IsTenPercentStop(sl, side, price, tick_size) ==
    /\ sl % tick_size = 0
    /\ 2 * Magnitude(100 * sl - (IF side = "BUY" THEN 90 * price
                                                  ELSE 110 * price))
          <= 100 * tick_size

---------------------------------------------------------------------------
(* Claims about the configuration file beside the mappings                 *)

\* C31: after an add_mapping or a remove_mapping that returned true, the
\* "symbol_mapping" of the configuration file is the in-memory forward
\* table, and the other keys of the file are what they were before the call.
C31_SavedTableOtherKeysKept ==
    [][ (ret'.op \in {"add_mapping", "remove_mapping"} /\ ret'.val = TRUE)
          => /\ config_file'.exists /\ config_file'.readable
             /\ config_file'.symbol_mapping = Dump(symbol_mapping')
             /\ MergeConfig(<< >>, config_file'.symbol_mapping) = symbol_mapping'
             /\ config_file'.other = config_file.other ]_vars

\* a mapping was added to a file that holds other keys
C31_AddedBesideSettings ==
    /\ ret.op = "add_mapping" /\ ret.val = TRUE
    /\ config_file.other = "settings"
    /\ config_file.symbol_mapping # << >>

---------------------------------------------------------------------------
(* A caller that keeps what get_all_mappings returned                      *)

\* the dict the caller holds: get_all_mappings returns self.symbol_mapping,
\* the translator's own dict (same_object), and contents is what the caller
\* reads in it
KeptMapping(same_object, contents) ==
    [kind |-> "mapping", same_object |-> same_object, contents |-> contents]

\* what the caller reads in its dict after the translator's table became sm
\* by assignments and deletions in place
SeenThrough(sm) ==
    IF result.kind = "mapping" /\ result.same_object
    THEN [result EXCEPT !.contents = sm]
    ELSE result

callerVars ==
    <<venue, initialized, req, facts, pc, loc, orders, outcomes, positions,
      serverVars>>

\* mappings = get_all_mappings(), kept by the caller
KeepAllMappings ==
    /\ result.kind = "pending"
    /\ ret' = [op |-> "get_all_mappings", arg |-> Empty,
               val |-> symbol_mapping, saved |-> "none"]
    /\ result' = KeptMapping(TRUE, symbol_mapping)
    /\ UNCHANGED <<symbol_mapping, reverse_mapping, config_file, pre>>
    /\ UNCHANGED callerVars

\* add_mapping: self.symbol_mapping[external_symbol] = ..., in place
AddWhileKept(external_symbol, mt5_symbol, volume_ratio) ==
    /\ DoAddMapping(external_symbol, mt5_symbol, volume_ratio, TRUE)
    /\ result' = SeenThrough(symbol_mapping')
    /\ UNCHANGED pre
    /\ UNCHANGED callerVars

\* remove_mapping: del self.symbol_mapping[external_symbol], in place
RemoveWhileKept(external_symbol) ==
    /\ DoRemoveMapping(external_symbol, TRUE)
    /\ result' = SeenThrough(symbol_mapping')
    /\ UNCHANGED pre
    /\ UNCHANGED callerVars

\* clear_mappings: self.symbol_mapping = {}, a new dict; the caller's dict
\* is the old one
ClearWhileKept ==
    /\ symbol_mapping' = << >>
    /\ reverse_mapping' = EmptyMap
    /\ save_mapping(TRUE)
    /\ ret' = [op |-> "clear_mappings", arg |-> Empty, val |-> saved(TRUE),
               saved |-> SaveOutcome(TRUE)]
    /\ result' = IF result.kind = "mapping"
                 THEN [result EXCEPT !.same_object = FALSE]
                 ELSE result
    /\ UNCHANGED pre
    /\ UNCHANGED callerVars

\* the caller assigns an entry in the dict it holds
CallerAssigns(external_symbol, mt5_symbol, volume_ratio) ==
    /\ result.kind = "mapping"
    /\ Len(Put(result.contents, external_symbol, mt5_symbol, volume_ratio))
          <= MaxKeys
    /\ result' = [result EXCEPT !.contents =
                     Put(result.contents, external_symbol, mt5_symbol,
                         volume_ratio)]
    /\ symbol_mapping' = IF result.same_object THEN result'.contents
                         ELSE symbol_mapping
    /\ UNCHANGED <<reverse_mapping, config_file, ret, pre>>
    /\ UNCHANGED callerVars

NextSnapshot ==
    \/ KeepAllMappings
    \/ \E e \in StoreIds, r \in Ratios : AddWhileKept(e, <<8>>, r)
    \/ \E e \in StoreIds : RemoveWhileKept(e)
    \/ ClearWhileKept
    \/ \E e \in StoreIds, r \in Ratios : CallerAssigns(e, <<9>>, r)

SpecSnapshot == InitStore /\ [][NextSnapshot]_vars

\* C32: what get_all_mappings returned is a snapshot: an add_mapping,
\* remove_mapping or clear_mappings after the call leaves the contents of
\* the returned mapping as they were, and an assignment the caller makes in
\* the returned mapping leaves the translator's forward table as it was.
C32_ReturnedMappingIsSnapshot ==
    [][ result.kind = "mapping" =>
          /\ ret'.op \in {"add_mapping", "remove_mapping", "clear_mappings"}
               /\ symbol_mapping' # symbol_mapping
                => result'.contents = result.contents
          /\ result'.contents # result.contents
                => symbol_mapping' = symbol_mapping ]_vars

---------------------------------------------------------------------------
(* The reverse index after loading and adding                              *)

NextRegister ==
    \/ LoadMapping
    \/ \E a \in AddArguments : AddMapping(a[1], a[2], a[3], TRUE)
    \/ \E v \in Venues : MapFromMt5(v)

SpecRegister == InitMapperOnly /\ [][NextRegister]_vars

\* the positions in the forward table of the entries that map to venue
\* symbol v, in the order in which their keys were registered
Sources(sm, v) == { i \in DOMAIN sm : sm[i].symbol = v }

\* C33: map_from_mt5(V) returns the first-registered of the external
\* identifiers that map to V, after load_mapping as well as after a
\* sequence of add_mapping calls, and V itself when V has no reverse entry.
C33_ReverseIsFirstRegistered ==
    ret.op = "map_from_mt5" =>
        /\ Sources(symbol_mapping, ret.arg) # {}
              => \E i \in Sources(symbol_mapping, ret.arg) :
                    /\ \A j \in Sources(symbol_mapping, ret.arg) : i <= j
                    /\ ret.val = symbol_mapping[i].key
        /\ ret.arg \notin DOMAIN reverse_mapping => ret.val = ret.arg

---------------------------------------------------------------------------
(* The connection to the venue: is_connected, the handlers' check and      *)
(* periodic_tasks, on both services                                        *)

\* the venue answers (MT5: terminal_info() is not None; Bybit: the API
\* answers get_wallet_balance) or not
VenueStates == [reachable : BOOLEAN]

\* is_connected(): MT5Trader asks the terminal as well, BybitTrader returns
\* self.initialized alone
is_connected ==
    IF venue = "mt5" THEN initialized /\ facts.reachable ELSE initialized

\* initialize(): True, and self.initialized = True, when the venue answers
initialize == facts.reachable

idleVars == <<req, pc, loc, orders, outcomes, positions, serverVars>>

\* the venue stops answering
ConnectionLost ==
    /\ facts.reachable
    /\ facts' = [reachable |-> FALSE]
    /\ UNCHANGED <<venue, initialized, result>>
    /\ UNCHANGED <<mapperVars, idleVars>>

\* the venue answers again
ConnectionBack ==
    /\ ~facts.reachable
    /\ facts' = [reachable |-> TRUE]
    /\ UNCHANGED <<venue, initialized, result>>
    /\ UNCHANGED <<mapperVars, idleVars>>

\* a trading handler: `if not trader or not trader.is_connected()` answers
\* the connectivity error, otherwise the handler goes to the venue
TradingRequest(handler) ==
    /\ result' = [kind |-> "answer", handler |-> handler,
                  refused |-> ~is_connected]
    /\ UNCHANGED <<venue, initialized, facts>>
    /\ UNCHANGED <<mapperVars, idleVars>>

\* health_check: healthy when is_connected()
HealthRequest ==
    /\ result' = [kind |-> "health", healthy |-> is_connected]
    /\ UNCHANGED <<venue, initialized, facts>>
    /\ UNCHANGED <<mapperVars, idleVars>>

\* websocket_handler: the welcome message of a new connection tells
\* is_connected()
Welcome ==
    /\ result' = [kind |-> "welcome", connected |-> is_connected]
    /\ UNCHANGED <<venue, initialized, facts>>
    /\ UNCHANGED <<mapperVars, idleVars>>

\* one cycle of periodic_tasks: trader.initialize() if not connected
PeriodicCycle ==
    /\ initialized' = IF ~is_connected /\ initialize THEN TRUE ELSE initialized
    /\ result' = [kind |-> "cycle", initialize_called |-> ~is_connected,
                  initialize_returned |-> ~is_connected /\ initialize]
    /\ UNCHANGED <<venue, facts>>
    /\ UNCHANGED <<mapperVars, idleVars>>

\* start_server: initialize() once, then the server runs whatever it returned
InitConnection ==
    /\ EmptyMapper
    /\ IdleServer
    /\ venue \in {"mt5", "bybit"}
    /\ facts \in VenueStates
    /\ initialized = facts.reachable
    /\ req = [op |-> "none"]
    /\ pc = "idle"
    /\ loc = [side |-> "none"]
    /\ orders = << >>
    /\ outcomes = << >>
    /\ result = [kind |-> "pending"]
    /\ positions = << >>

NextConnection ==
    \/ ConnectionLost
    \/ ConnectionBack
    \/ \E h \in TradingHandlers : TradingRequest(h)
    \/ HealthRequest
    \/ Welcome
    \/ PeriodicCycle

\* periodic_tasks loops for ever with a sleep of 30 seconds
SpecConnection ==
    InitConnection /\ [][NextConnection]_vars /\ WF_vars(PeriodicCycle)

\* C34: once the venue connection is lost after a successful
\* initialization, is_connected is false, a trading request is answered
\* with the connectivity error and the next cycle of periodic_tasks calls
\* initialize; if the venue answers from some point on, the service is
\* connected for good from some point on. On both services.
C34_LostConnectionSeenAndRestored ==
    /\ []((initialized /\ ~facts.reachable) => ~is_connected)
    /\ [][ (initialized /\ ~facts.reachable) =>
              /\ result'.kind = "answer" /\ result' # result
                    => result'.refused
              /\ result'.kind = "cycle" /\ result' # result
                    => result'.initialize_called ]_vars
    /\ (<>[](facts.reachable) => <>[]is_connected)

---------------------------------------------------------------------------
(* The instrument and the ratio of one identifier                          *)

\* entry i of table sm gives both the venue symbol v and the ratio r, and
\* its key occurs in identifier s
OneEntryGives(sm, s, v, r) ==
    \E i \in DOMAIN sm :
        /\ IsSubstring(sm[i].key, s)
        /\ sm[i].symbol = v
        /\ sm[i].volume_ratio = r

\* C35: the venue symbol map_to_mt5(S) returns and the ratio
\* get_volume_ratio(S) returns, which map_volume(S, v) multiplies by, are
\* those of one entry of the forward table; without a matching entry they
\* are S and 1.
C35_SymbolAndRatioOfOneEntry ==
    LET sm == symbol_mapping
        v == IF ret.op = "map_to_mt5" THEN ret.val
             ELSE map_to_mt5(sm, ret.arg)
        r == IF ret.op = "get_volume_ratio" THEN ret.val
             ELSE get_volume_ratio(sm, ret.arg)
    IN  ret.op \in {"map_to_mt5", "get_volume_ratio", "map_volume"} =>
            /\ IF NothingMatches(sm, ret.arg)
               THEN v = ret.arg /\ r = 1
               ELSE OneEntryGives(sm, ret.arg, v, r)
            /\ ret.op = "map_volume" => ret.val.mapped = ret.val.volume * r

\* an identifier that is no key and in which two keys with different
\* venue symbols and ratios occur
C35_TwoEntriesMatch ==
    /\ ret.op = "map_to_mt5"
    /\ ret.arg \notin Keys(symbol_mapping)
    /\ \E i, j \in DOMAIN symbol_mapping :
          /\ IsSubstring(symbol_mapping[i].key, ret.arg)
          /\ IsSubstring(symbol_mapping[j].key, ret.arg)
          /\ symbol_mapping[i].symbol # symbol_mapping[j].symbol
          /\ symbol_mapping[i].volume_ratio # symbol_mapping[j].volume_ratio

---------------------------------------------------------------------------
(* The reverse index of the venue symbols in use                           *)

\* C36: after any sequence of add_mapping and remove_mapping calls, every
\* venue symbol some forward entry maps to has a reverse entry, and that
\* entry names an external identifier whose forward entry maps to it.
C36_ForwardHasReverse ==
    \A i \in DOMAIN symbol_mapping :
        LET v == symbol_mapping[i].symbol
        IN  /\ v \in DOMAIN reverse_mapping
            /\ \E j \in DOMAIN symbol_mapping :
                  /\ symbol_mapping[j].key = reverse_mapping[v]
                  /\ symbol_mapping[j].symbol = v

---------------------------------------------------------------------------
(* What open_position reports about the order                              *)

\* C37: in a success response of open_position, the data's volume and type
\* are the quantity and the side of the order the venue accepted.
C37_ResponseReportsTheOrder ==
    (pc = "responded" /\ sent[1][1].status = "success") =>
        LET o == orders[Len(orders)]
        IN  /\ sent[1][1].data.volume = o.qty
            /\ sent[1][1].data.type = o.side

---------------------------------------------------------------------------
(* close_position_by_ticket with a ticket get_positions reported           *)

\* the positions get_positions reports of the venue's list l: Bybit leaves
\* out the records of size 0
Reported(l) == { k \in DOMAIN l : l[k].size > 0 }

\* the request for the position get_positions reported from place k of the
\* venue's list: its 'ticket', and the record itself for reference
TicketRequest(l, k) ==
    [op |-> "close_position_by_ticket", ticket |-> l[k].ticket,
     reported |-> l[k]]

\* close_position_by_ticket of the request handler up to the adapter call:
\* the connection check, then `if not ticket`
HandleCloseByTicket ==
    /\ pc = "request"
    /\ req.op = "close_position_by_ticket"
    /\ IF ~initialized \/ req.ticket = 0
       THEN Return(HandlerRefuses) /\ UNCHANGED loc
       ELSE /\ loc' = BatchLocals("none", <<[ticket |-> req.ticket]>>)
            /\ pc' = "lookup"
            /\ UNCHANGED result
    /\ UNCHANGED <<venue, initialized, req, facts, orders, outcomes, positions>>
    /\ UNCHANGED <<mapperVars, serverVars>>

InitTicket ==
    /\ EmptyMapper
    /\ IdleServer
    /\ venue \in {"bybit", "mt5"}
    /\ initialized \in BOOLEAN
    /\ positions \in
         { l \in (IF venue = "bybit"
                  THEN PositionLists(BybitPositions, MaxPositions)
                  ELSE { [i \in DOMAIN m |-> MT5Position(m[i])] :
                         m \in MT5PositionLists(MaxPositions) }) :
             Reported(l) # {} }
    /\ req \in { TicketRequest(positions, k) : k \in Reported(positions) }
    /\ facts = [symbol_info |-> "none"]
    /\ pc = "request"
    /\ loc = BatchLocals("none", << >>)
    /\ orders = << >>
    /\ outcomes = << >>
    /\ result = [kind |-> "pending"]

NextTicket ==
    \/ HandleCloseByTicket
    \/ \E answer \in QueryAnswers : BybitCloseLookup(answer)
    \/ \E a \in SubmitAnswers : BybitCloseOrder(a)
    \/ \E answer \in QueryAnswers : MT5CloseLookup(answer)
    \/ \E a \in SubmitAnswers : MT5CloseOrder(a)

SpecTicket == InitTicket /\ [][NextTicket]_vars

\* C38: a position get_positions reported can be closed through
\* close_position_by_ticket with the ticket reported for it: the handler of
\* a connected service takes the ticket, 0 included, and the closing order
\* is for that position (its symbol, its size, the opposing side).
C38_ReportedTicketCloses ==
    (req.op = "close_position_by_ticket" /\ pc # "request" /\ initialized) =>
        /\ result # HandlerRefuses
        /\ \A i \in DOMAIN orders :
              /\ orders[i].symbol = req.reported.symbol
              /\ orders[i].qty = req.reported.size
              /\ orders[i].side # req.reported.side

---------------------------------------------------------------------------
(* The scope of close_positions_by_symbol                                  *)

\* the records of the venue's list l of an instrument other than symbol
RECURSIVE NotOfSymbol(_, _)
NotOfSymbol(l, symbol) ==
    IF l = << >> THEN << >>
    ELSE IF Head(l).symbol # symbol
         THEN <<Head(l)>> \o NotOfSymbol(Tail(l), symbol)
         ELSE NotOfSymbol(Tail(l), symbol)

\* C39: close_positions_by_symbol(symbol) submits closing orders only for
\* the instrument symbol and only of a nonzero quantity, and no step of it
\* changes the venue's positions of any other instrument.
C39_OnlyTheSymbolIsClosed ==
    [][req.op = "close_positions_by_symbol" =>
          /\ \A k \in DOMAIN orders' :
                /\ orders'[k].symbol = req.symbol
                /\ orders'[k].qty > 0
          /\ NotOfSymbol(positions', req.symbol)
               = NotOfSymbol(positions, req.symbol)]_vars

---------------------------------------------------------------------------
(* What a batch closure's true means                                       *)

\* C40: close_positions_by_symbol and close_all_positions return true only
\* if the venue's position listing succeeded and every listed position was
\* closed; a listing that failed is answered with false, not with the true
\* of "no positions".
C40_TrueOnlyAfterListing ==
    (/\ req.op \in {"close_all_positions", "close_positions_by_symbol"}
     /\ pc = "done"
     /\ result.kind = "bool")
        => /\ result.value =>
                /\ loc.response = "ok"
                /\ Len(loc.closed) = Len(loc.batch)
                /\ \A i \in DOMAIN loc.closed : loc.closed[i]
           /\ (initialized /\ loc.response # "ok") => ~result.value

===========================================================================
